---- MODULE Spec2Model ----
(***************************************************************************)
(* Payment reconciliation of the VPN subscription bot: the SeverPay and    *)
(* Platega webhook routes (bot/services/severpay_service.py,               *)
(* bot/services/platega_service.py) and the initiation handlers that       *)
(* create the payment records (bot/handlers/user/subscription/             *)
(* payments_severpay.py, payments_platega.py).                             *)
(*                                                                         *)
(* Every webhook delivery runs in its own database session.  A session's   *)
(* writes stay private until session.commit(), so the steps between the    *)
(* lookup and the commit (status update, activate_subscription, referral   *)
(* bonus) are one action whose outcome is the commit or the rollback; the  *)
(* lookup before it is a separate action, because other handlers can       *)
(* commit between a handler's lookup and its commit.  The steps after the  *)
(* commit (user lookup, message building, notifications) touch no payment  *)
(* state and belong to the action of the commit.                           *)
(***************************************************************************)
EXTENDS Integers, FiniteSets, Sequences, TLC

\* Number of webhook deliveries in a behaviour.
MaxDeliveries == 2

NULL == "NULL"

Providers == {"severpay", "platega"}
\* One purchase per behaviour; the tables and lookups below are written for
\* any number of rows.
PaymentIds == {1}
\* Request slots of the web server: two deliveries can be in flight at once.
Handlers == {1, 2}

\* Transaction id the provider assigns to the payment intent of record p.
TxOf(p) == IF p = 1 THEN "tx1" ELSE "tx2"
\* ids a webhook can name: the one of the purchase and one of no purchase
TxIds == {"tx1", "tx2"}

\* str(payment.payment_id)
StrOfId(p) == IF p = 1 THEN "1" ELSE "2"

PendingStatus(provider) ==
    CASE provider = "severpay" -> "pending_severpay"
      [] provider = "platega" -> "pending_platega"
      [] provider = "freekassa" -> "pending_freekassa"
      [] provider = "yookassa" -> "pending_yookassa"
PendingStatuses == {PendingStatus(v) : v \in Providers}
FailureTerminals == {"failed", "failed_creation", "canceled"}

\* callback.from_user.id of the buyer
BuyerId == 7
\* price_rub of the offer, in thousandths of a rouble (299.00)
PriceMills == 299000
\* int(months) of the purchase: a whole number of months, or a traffic
\* package of less than one gigabyte, which int() truncates to 0
StoredMonths == {0, 3}

\* settings.SEVERPAY_TOKEN, settings.PLATEGA_MERCHANT_ID, settings.PLATEGA_SECRET
Token == "token"
MerchantId == "merchant"
Secret == "secret"

VARIABLES
    configured,   \* [provider -> BOOLEAN]: service.configured, fixed at construction
    payments,     \* committed Payment rows: id -> [provider, status, provider_payment_id,
                  \*                                user_id, amount, subscription_duration_months]
    grants,       \* id -> number of activate_subscription calls whose transaction committed
    wh,           \* webhook handlers: slot -> handler state
    ini,          \* initiation handlers: provider -> handler state
    delivered,    \* number of webhook deliveries so far
    bonuses,      \* id -> number of apply_referral_bonuses_for_payment calls whose
                  \*       transaction committed
    autorenew,    \* subscriptions, saved cards and the auto-renew callbacks (core.py)
    gate,         \* one update passing through ChannelSubscriptionMiddleware
    userdb,       \* the users table and the transactions that call create_user
    refcode,      \* one run of generate_unique_referral_code
    relations,    \* the tables that refer to users, for delete_user_and_relations
    clients,      \* the aiohttp ClientSessions of SeverPayService and PlategaService
    sig,          \* one SeverPay request body on its way from _build_signed_body
                  \* to _validate_signature
    lknpd,        \* LknpdService, its LknpdClient and the calls in progress on them
    refdb         \* the users table seen by sessions that assign referral codes

\* the state of the payment subsystem
paymentVars == <<configured, payments, grants, wh, ini, delivered, bonuses>>

\* the state of the components that take no part in payment reconciliation
receiptVars == <<lknpd, refdb>>

otherVars == <<autorenew, gate, userdb, refcode, relations, clients, sig, receiptVars>>

vars == <<paymentVars, otherVars>>

\* The components outside a specification stay as they are constructed.
InitOthers ==
    /\ autorenew = NULL /\ gate = NULL /\ userdb = NULL /\ refcode = NULL
    /\ relations = NULL /\ clients = NULL /\ sig = NULL
    /\ lknpd = NULL /\ refdb = NULL

-----------------------------------------------------------------------------
(* Payment DAL (db/dal/payment_dal.py).                                    *)

\* The table is a function from the ids of the inserted rows to the rows;
\* payment_id is assigned in insertion order.
NextPaymentId(db) == Cardinality(DOMAIN db) + 1

create_payment_record(db, payment_data) ==
    [p \in DOMAIN db \cup {NextPaymentId(db)} |->
        IF p \in DOMAIN db THEN db[p]
        ELSE [provider |-> payment_data.provider,
              status |-> payment_data.status,
              provider_payment_id |-> NULL,
              user_id |-> BuyerId,
              amount |-> PriceMills,
              subscription_duration_months |-> payment_data.subscription_duration_months]]

\* 0 stands for None
get_payment_by_db_id(db, id) ==
    IF id \in DOMAIN db THEN id ELSE 0

\* ids of the rows whose provider_payment_id equals ppid
get_payment_by_provider_payment_id(db, ppid) ==
    {p \in DOMAIN db : db[p].provider_payment_id = ppid}

update_provider_payment_and_status(db, id, ppid, new_status) ==
    [db EXCEPT ![id].provider_payment_id = ppid, ![id].status = new_status]

update_payment_status_by_db_id(db, id, new_status) ==
    [db EXCEPT ![id].status = new_status]

\* update_payment_status_by_db_id(..., yk_payment_id=...)
update_payment_status_with_yk_id(db, id, new_status, yk_payment_id) ==
    [db EXCEPT ![id].status = new_status, ![id].provider_payment_id = yk_payment_id]

-----------------------------------------------------------------------------
(* Responses.                                                              *)

Resp(code, body) == [code |-> code, body |-> body]
NoResp == Resp(0, "")
Is2xx(r) == r.code >= 200 /\ r.code < 300

\* A handler that raises out of webhook_route: aiohttp answers 500.
Unhandled == Resp(500, "internal_server_error")

-----------------------------------------------------------------------------
(* Webhook handler state.                                                  *)

\* data.get("amount"): a number (in thousandths), absent, or a value that
\* Decimal() rejects
Amount(mills) == [kind |-> "num", mills |-> mills]
NoAmount == [kind |-> "absent", mills |-> 0]
BadAmount == [kind |-> "bad", mills |-> 0]

\* months and traffic_gb of a notify_payment_received call; traffic_gb = 0
\* stands for None
NoQuantity == [months |-> -1, traffic_gb |-> -1]

\* Arguments of an activate_subscription call; NoCall when none was made.
NoCall ==
    [user_id |-> 0, months |-> -1, amount |-> -1, payment_id |-> 0, provider |-> "",
     sale_mode |-> "", traffic_gb |-> -1]

\* lookup: "" (not run), "raised", "none" or "found"; orphan: the request
\* names no row of the table; amountIn and warned: the amount of a Platega
\* CONFIRMED event and the warning logged by its comparison; exc: "none",
\* "signature" (an exception in the signature check), "downstream" (an exception in the database
\* read, the status write, the activation, the bonus or the commit),
\* "postcommit" (in a step after the commit that is not guarded) or
\* "notify" (in a guarded notification); act: the arguments of the
\* activate_subscription call; adminAmount: the amount passed to
\* notify_payment_received, -1 when it was not called; userMode: the sale
\* mode that chose the text of the user's message, "" when none was built;
\* adminCall: the months and traffic_gb passed to notify_payment_received;
\* type and data: the event type of a SeverPay payload in lower case and
\* whether its data is an "object", "empty" or "other"; status: the status
\* of a Platega payload as it was sent.
IdleHandler ==
    [pc |-> "idle", prov |-> NULL, forged |-> FALSE, body |-> "", type |-> "", data |-> "",
     status |-> "", kind |-> "", pay |-> 0, readStatus |-> "", txid |-> "",
     lookup |-> "", orphan |-> FALSE, amountIn |-> NoAmount, warned |-> "",
     dbRead |-> FALSE, dbWrite |-> FALSE, committed |-> FALSE, lostRace |-> FALSE,
     activated |-> FALSE, bonus |-> FALSE, userMsg |-> FALSE, adminMsg |-> FALSE,
     exc |-> "none", act |-> NoCall, adminAmount |-> -1,
     userMode |-> "", adminCall |-> NoQuantity,
     resp |-> NoResp]

InFlight(h) == wh[h].pc = "transact"

\* A delivery takes a free slot (the first one when both are free).
CanArrive(h) ==
    /\ delivered < MaxDeliveries
    /\ ~InFlight(h)
    /\ (IF h = 1 THEN TRUE ELSE InFlight(1))

Done(s) == [s EXCEPT !.pc = "done", !.txid = ""]

\* A slot shows the outcome of its delivery until the next step of the
\* system; then it is free again.
Settle(w) == [g \in Handlers |-> IF w[g].pc = "done" THEN IdleHandler ELSE w[g]]

\* Handler h ends in state s.
Respond(h, s) == wh' = [Settle(wh) EXCEPT ![h] = Done(s)]

\* Handler h goes on in state s.
Continue(h, s) == wh' = [Settle(wh) EXCEPT ![h] = s]

Finish(h, s, r) == Respond(h, [s EXCEPT !.resp = r])

-----------------------------------------------------------------------------
(* SeverPay: signature and payload parsing.                                *)

\* str.lower() on the event types and statuses that occur
Lower(str) ==
    CASE str = "PAYIN" -> "payin"
      [] str = "SUCCESS" -> "success"
      [] OTHER -> str

\* dataIsDict: payload["data"] is a JSON object; dataEmpty: it is missing,
\* null or another value that Python takes for false ([], "", 0, false), and
\* then there is no id, order_id or status.
\* the mutant of DataIsDict: no isinstance check
DataIsAlwaysDict(payload) == TRUE

\* data = payload.get("data") or {}; isinstance(data, dict)
DataIsDict(payload) == payload.dataIsDict \/ payload.dataEmpty

\* payload without its "sign" key
SignedData(payload) ==
    [type |-> payload.type, dataIsDict |-> payload.dataIsDict, dataEmpty |-> payload.dataEmpty, id |-> payload.id,
     order_id |-> payload.order_id, status |-> payload.status]

\* HMAC-SHA256 of the serialized payload under key: equal digests only for
\* equal keys and equal messages
Hmac(key, message) == [kind |-> "mac", key |-> key, msg |-> message]
NoMessage == [type |-> "", dataIsDict |-> TRUE, dataEmpty |-> FALSE, id |-> "", order_id |-> [type |-> "none", text |-> ""], status |-> ""]
AbsentSign == [kind |-> "absent", key |-> "", msg |-> NoMessage]
EmptySign == [kind |-> "empty", key |-> "", msg |-> NoMessage]
\* a sign that is a str with a character outside ASCII
NonAsciiSign == [kind |-> "nonascii", key |-> "", msg |-> NoMessage]

_sign_payload(token, payload) == Hmac(token, payload)

\* str(payload.get("sign") or "")
ProvidedSign(payload) ==
    IF payload.sign.kind \in {"mac", "nonascii"} THEN payload.sign ELSE EmptySign

\* hmac.compare_digest raises TypeError when a str argument has a character
\* outside ASCII.
CompareDigestRaises(token, payload) ==
    token # "" /\ ProvidedSign(payload).kind = "nonascii"

_validate_signature(token, payload) ==
    IF ProvidedSign(payload) = EmptySign \/ token = ""
    THEN FALSE
    ELSE ProvidedSign(payload) = _sign_payload(token, SignedData(payload))

\* data.order_id: an int, a string or absent
IntOrder(n) == [type |-> "int", text |-> StrOfId(n)]
StrOrder(t) == [type |-> "str", text |-> t]
NoOrder == [type |-> "none", text |-> ""]
IsDigit(text) == text \in {"1", "2"}
IntOf(text) == IF text = "1" THEN 1 ELSE 2

\* payment_db_id of webhook_route; 0 stands for None
ParseOrderId(order_id_raw) ==
    IF order_id_raw.type = "int" THEN IntOf(order_id_raw.text)
    ELSE IF order_id_raw.type = "str" /\ IsDigit(order_id_raw.text) THEN IntOf(order_id_raw.text)
    ELSE 0

\* Payin events in each class of status that name the purchase by its order
\* id, with and without a provider id, or by its provider id alone; success
\* events that name no purchase; the other spellings of order id, status
\* and event type occur with the ids of the purchase.
SeverPayContents ==
    { [type |-> "payin", dataIsDict |-> TRUE, dataEmpty |-> FALSE, id |-> i, order_id |-> IntOrder(1), status |-> st] :
        i \in {"", "tx1"}, st \in {"success", "fail", "process", "hold"} }
    \cup
    { [type |-> "payin", dataIsDict |-> TRUE, dataEmpty |-> FALSE, id |-> "tx1", order_id |-> NoOrder, status |-> st] :
        st \in {"success", "fail", "process", "hold"} }
    \cup
    { [type |-> "payin", dataIsDict |-> TRUE, dataEmpty |-> FALSE, id |-> i, order_id |-> o, status |-> "success"] :
        i \in {"", "tx1"}, o \in {NoOrder, StrOrder("abc")} }
    \cup
    { [type |-> "payin", dataIsDict |-> TRUE, dataEmpty |-> FALSE, id |-> "tx2", order_id |-> o, status |-> "success"] :
        o \in {NoOrder, StrOrder("abc")} }
    \cup
    { [type |-> "payin", dataIsDict |-> TRUE, dataEmpty |-> FALSE, id |-> "tx1", order_id |-> o, status |-> st] :
        o \in {IntOrder(1), StrOrder("1"), IntOrder(2)}, st \in {"SUCCESS", "decline", "new"} }
    \cup
    { [type |-> t, dataIsDict |-> d, dataEmpty |-> FALSE, id |-> "tx1", order_id |-> IntOrder(1), status |-> "success"] :
        t \in {"payin", "PAYIN", "payout"}, d \in BOOLEAN }
    \cup
    { [type |-> t, dataIsDict |-> FALSE, dataEmpty |-> TRUE, id |-> "", order_id |-> NoOrder,
       status |-> ""] : t \in {"payin", "payout"} }

SeverPayCanonical ==
    [type |-> "payin", dataIsDict |-> TRUE, dataEmpty |-> FALSE, id |-> "tx1", order_id |-> IntOrder(1), status |-> "success"]
SeverPayOther ==
    [type |-> "payin", dataIsDict |-> TRUE, dataEmpty |-> FALSE, id |-> "tx1", order_id |-> IntOrder(1), status |-> "fail"]

WithSign(content, body, sign) ==
    [body |-> body, sign |-> sign, type |-> content.type, dataIsDict |-> content.dataIsDict,
     dataEmpty |-> content.dataEmpty,
     id |-> content.id, order_id |-> content.order_id, status |-> content.status]

\* The requests delivered to /webhook/severpay: correctly signed payloads,
\* payloads with a missing, empty, wrong-key or transplanted signature, and
\* bodies that are not JSON or not a JSON object.
SeverPayRequests ==
    { WithSign(c, "dict", Hmac(Token, c)) : c \in SeverPayContents }
    \cup { WithSign(SeverPayCanonical, "dict", sg) :
             sg \in {AbsentSign, EmptySign, NonAsciiSign,
                     Hmac("guess", SeverPayCanonical), Hmac(Token, SeverPayOther)} }
    \cup { WithSign(SeverPayCanonical, b, sg) :
             b \in {"notjson", "notdict"}, sg \in {AbsentSign, Hmac(Token, SeverPayCanonical)} }

-----------------------------------------------------------------------------
(* SeverPayService.webhook_route.                                          *)

\* The sign field is missing, empty or not the HMAC of the payload.
SeverPayForged(req) ==
    req.sign.kind # "mac" \/ req.sign # Hmac(Token, SignedData(req))

\* the mutant of SeverPayLookup: a request that names no row gets the rows
\* that wait for a payment
SeverPayLookupOrPending(db, req) ==
    LET payment_db_id == ParseOrderId(req.order_id)
        byId == IF payment_db_id # 0 THEN get_payment_by_db_id(db, payment_db_id) ELSE 0
        byProviderId == IF req.id # "" THEN get_payment_by_provider_payment_id(db, req.id) ELSE {}
    IN IF byId # 0 THEN {byId}
       ELSE IF byProviderId # {} THEN byProviderId
       ELSE {p \in DOMAIN db : db[p].status = "pending_severpay"}

\* the mutant of SeverPayLookup: the provider id is tried first
SeverPayLookupByProviderIdFirst(db, req) ==
    LET payment_db_id == ParseOrderId(req.order_id)
        byProviderId == IF req.id # "" THEN get_payment_by_provider_payment_id(db, req.id) ELSE {}
        byId == IF payment_db_id # 0 THEN get_payment_by_db_id(db, payment_db_id) ELSE 0
    IN IF byProviderId # {} THEN byProviderId
       ELSE IF byId # 0 THEN {byId}
       ELSE {}

\* Rows the lookup of webhook_route can return: by numeric order_id first,
\* by provider id only when that found nothing.
SeverPayLookup(db, req) ==
    LET payment_db_id == ParseOrderId(req.order_id)
        byId == IF payment_db_id # 0 THEN get_payment_by_db_id(db, payment_db_id) ELSE 0
    IN IF byId # 0 THEN {byId}
       ELSE IF req.id # "" THEN get_payment_by_provider_payment_id(db, req.id)
       ELSE {}

\* The lookup queries the database only with a numeric order_id or a
\* provider id.
SeverPayQueries(req) == ParseOrderId(req.order_id) # 0 \/ req.id # ""

\* Rows a request names: the row with the numeric order id (0 when there is
\* none) and the rows with the provider id ("" when there is none).
Referenced(db, id, ppid) ==
    {p \in DOMAIN db : p = id \/ (ppid # "" /\ db[p].provider_payment_id = ppid)}

SeverPayKind(status) ==
    CASE status = "success" -> "success"
      [] status \in {"fail", "decline"} -> "failure"
      [] status \in {"process", "new"} -> "pending"
      [] OTHER -> "ignored"

\* From the arrival of the request to the row lookup.
SeverPayWebhookBegin(h, req) ==
    /\ CanArrive(h)
    /\ LET s0 == [IdleHandler EXCEPT !.prov = "severpay", !.forged = SeverPayForged(req),
                                     !.body = req.body,
                                     !.type = IF req.body = "dict" THEN Lower(req.type) ELSE "",
                                     !.data = IF req.body # "dict" THEN ""
                                              ELSE IF req.dataIsDict THEN "object"
                                              ELSE IF req.dataEmpty THEN "empty" ELSE "other"]
           s1 == [s0 EXCEPT !.dbRead = SeverPayQueries(req),
                            !.orphan = Referenced(payments, ParseOrderId(req.order_id), req.id) = {}]
       IN IF ~configured["severpay"]
          THEN Finish(h, s0, Resp(503, "severpay_disabled"))
          ELSE IF req.body = "notjson"
          THEN Finish(h, s0, Resp(400, "bad_request"))
          ELSE IF req.body = "dict" /\ CompareDigestRaises(Token, req)
          THEN Finish(h, [s0 EXCEPT !.exc = "signature"], Unhandled)
          ELSE IF req.body # "dict" \/ ~_validate_signature(Token, req)
          THEN Finish(h, s0, Resp(403, "invalid_signature"))
          ELSE IF Lower(req.type) # "payin" \/ ~DataIsDict(req)
          THEN Finish(h, s0, Resp(200, "status_true"))
          ELSE \/ /\ SeverPayQueries(req)
                  /\ Finish(h, [s1 EXCEPT !.lookup = "raised", !.exc = "downstream"], Unhandled)
               \/ IF SeverPayLookup(payments, req) = {}
                  THEN Finish(h, [s1 EXCEPT !.lookup = "none"], Resp(404, "payment_not_found"))
                  ELSE \E p \in SeverPayLookup(payments, req) :
                         LET s2 == [s1 EXCEPT !.pay = p, !.lookup = "found",
                                              !.readStatus = payments[p].status,
                                              !.kind = SeverPayKind(Lower(req.status))]
                         IN IF s2.kind = "ignored"
                            THEN Finish(h, s2, Resp(200, "status_true"))
                            ELSE Continue(h, [s2 EXCEPT !.pc = "transact",
                                                        !.txid = IF req.id # "" THEN req.id ELSE StrOfId(p)])
    /\ delivered' = delivered + 1
    /\ UNCHANGED <<otherVars, bonuses, configured, payments, grants, ini>>

\* Points at which the success transaction can raise.
TransactionFailures(traffic) ==
    {"none", "update", "activate", "commit"} \cup (IF traffic THEN {} ELSE {"bonus"})

\* the mutant of PaymentMonths: the stored value as it is
StoredQuantity(payment) == payment.subscription_duration_months

\* payment_months = payment.subscription_duration_months or 1
PaymentMonths(payment) ==
    IF payment.subscription_duration_months = 0 THEN 1 ELSE payment.subscription_duration_months

\* sale_mode = "traffic" if self.settings.traffic_sale_mode else "subscription"
SaleMode(traffic) == IF traffic THEN "traffic" ELSE "subscription"

\* Steps after the commit of the success branch: user lookup, config links,
\* message text and keyboard (not guarded), then send_message and
\* notify_payment_received (each in its own try/except, so that a failure
\* of either is logged and the handler goes on).  userMsg and adminMsg
\* record that the call was made.
PostCommitFailures == {"none", "lookup", "links", "render", "send", "notify", "send_notify"}

\* the mutant of NotificationQuantity: the stored value is always months
NotificationQuantityAsMonths(payment_months, traffic) ==
    [months |-> payment_months, traffic_gb |-> 0]

\* months and traffic_gb of notify_payment_received
NotificationQuantity(payment_months, traffic) ==
    [months |-> IF traffic THEN 0 ELSE payment_months,
     traffic_gb |-> IF traffic THEN payment_months ELSE 0]

AfterSuccessCommit(s, traffic, post, rOk) ==
    IF post \in {"lookup", "links", "render"}
    THEN [s EXCEPT !.exc = "postcommit", !.resp = Unhandled]
    ELSE [s EXCEPT !.userMsg = TRUE, !.adminMsg = TRUE,
                   !.adminAmount = payments[s.pay].amount,
                   !.userMode = SaleMode(traffic),
                   !.adminCall = NotificationQuantity(PaymentMonths(payments[s.pay]), traffic),
                   !.exc = IF post = "none" THEN "none" ELSE "notify",
                   !.resp = rOk]

\* The arguments of activate_subscription; float(payment.amount) keeps the
\* amount, and traffic_gb = 0 stands for None.
ActivationCall(payment, payment_id, provider, traffic) ==
    [user_id |-> payment.user_id,
     months |-> IF traffic THEN 0 ELSE PaymentMonths(payment),
     amount |-> payment.amount,
     payment_id |-> payment_id,
     provider |-> provider,
     sale_mode |-> SaleMode(traffic),
     traffic_gb |-> IF traffic THEN PaymentMonths(payment) ELSE 0]

\* The success branch from the status update to the response: status
\* update, activate_subscription, referral bonus (subscription sale mode
\* only) and commit; any exception rolls the session back and answers r500;
\* after the commit the notifications.  lostRace records that the row was
\* read as pending and another delivery committed succeeded before this
\* commit.
SuccessBranch(h, traffic, fail, post, r500, rOk) ==
    /\ wh[h].pc = "transact" /\ wh[h].kind = "success"
    /\ fail \in TransactionFailures(traffic)
    /\ post \in PostCommitFailures
    /\ fail # "none" => post = "none"
    /\ LET p == wh[h].pay
           called == fail # "update"
           s == [wh[h] EXCEPT !.dbWrite = TRUE,
                              !.activated = called,
                              !.act = IF called
                                      THEN ActivationCall(payments[p], p, wh[h].prov, traffic)
                                      ELSE NoCall,
                              !.exc = IF fail = "none" THEN "none" ELSE "downstream",
                              !.bonus = ~traffic /\ fail \in {"none", "bonus", "commit"},
                              !.committed = (fail = "none"),
                              !.lostRace = /\ fail = "none"
                                           /\ wh[h].readStatus \in PendingStatuses
                                           /\ payments[p].status = "succeeded"]
       IN IF fail = "none"
          THEN /\ payments' = update_provider_payment_and_status(payments, p, wh[h].txid, "succeeded")
               /\ grants' = [grants EXCEPT ![p] = @ + 1]
               /\ bonuses' = [bonuses EXCEPT ![p] = IF s.bonus THEN @ + 1 ELSE @]
               /\ Respond(h, AfterSuccessCommit(s, traffic, post, rOk))
          ELSE /\ UNCHANGED <<payments, grants, bonuses>>
               /\ Finish(h, s, r500)
    /\ UNCHANGED <<otherVars, configured, ini, delivered>>

SeverPaySuccessBranch(h, traffic, fail, post) ==
    /\ wh[h].prov = "severpay"
    /\ SuccessBranch(h, traffic, fail, post, Resp(500, "processing_error"), Resp(200, "status_true"))

\* fail/decline (SeverPay) and CANCELED/CANCELLED/CHARGEBACKED (Platega):
\* status update and commit (rolled back and answered r500 on an exception),
\* then the user lookup (not guarded) and the "payment_failed" message
\* (guarded).
FailureBranch(h, ok, post, new_status, r500, rOk) ==
    /\ wh[h].pc = "transact" /\ wh[h].kind = "failure"
    /\ post \in {"none", "lookup", "send"}
    /\ ~ok => post = "none"
    /\ LET s == [wh[h] EXCEPT !.dbWrite = TRUE, !.committed = ok]
       IN IF ~ok
          THEN /\ UNCHANGED payments
               /\ Finish(h, [s EXCEPT !.exc = "downstream"], r500)
          ELSE /\ payments' = update_provider_payment_and_status(payments, wh[h].pay, wh[h].txid, new_status)
               /\ IF post = "lookup"
                  THEN Finish(h, [s EXCEPT !.exc = "postcommit"], Unhandled)
                  ELSE Finish(h, [s EXCEPT !.userMsg = TRUE,
                                           !.exc = IF post = "send" THEN "notify" ELSE "none"], rOk)
    /\ UNCHANGED <<otherVars, bonuses, configured, grants, ini, delivered>>

SeverPayFailureBranch(h, ok, post) ==
    /\ wh[h].prov = "severpay"
    /\ FailureBranch(h, ok, post, "failed", Resp(500, "processing_error"), Resp(200, "status_true"))

\* process/new: the row is rewritten with status pending_severpay; an
\* exception is rolled back and the answer is 200 either way.
SeverPayPendingBranch(h, ok) ==
    /\ wh[h].pc = "transact" /\ wh[h].kind = "pending" /\ wh[h].prov = "severpay"
    /\ payments' = IF ok
                   THEN update_provider_payment_and_status(payments, wh[h].pay, wh[h].txid, "pending_severpay")
                   ELSE payments
    /\ Finish(h, [wh[h] EXCEPT !.dbWrite = TRUE, !.committed = ok,
                                !.exc = IF ok THEN "none" ELSE "downstream"],
              Resp(200, "status_true"))
    /\ UNCHANGED <<otherVars, bonuses, configured, grants, ini, delivered>>

-----------------------------------------------------------------------------
(* PlategaService.webhook_route.                                           *)

\* str.upper() on the statuses that occur
Upper(str) ==
    CASE str = "confirmed" -> "CONFIRMED"
      [] str = "canceled" -> "CANCELED"
      [] OTHER -> str

\* Decimal(...).quantize(Decimal("0.01"), rounding=ROUND_HALF_UP), in
\* hundredths, for amounts that are not negative
Quantize(mills) == (mills + 5) \div 10

\* the mutant of AmountWarning: the amounts are compared without rounding
AmountWarningUnrounded(amount_raw, stored) ==
    IF amount_raw.kind = "absent" THEN ""
    ELSE IF amount_raw.kind = "bad" THEN "failed_to_compare_amounts"
    ELSE IF amount_raw.mills # stored THEN "amount_mismatch"
    ELSE ""

\* The comparison of the webhook's amount with the stored one, made for a
\* CONFIRMED event before the transaction: the warning it logs.
AmountWarning(amount_raw, stored) ==
    IF amount_raw.kind = "absent" THEN ""
    ELSE IF amount_raw.kind = "bad" THEN "failed_to_compare_amounts"
    ELSE IF Quantize(amount_raw.mills) # Quantize(stored) THEN "amount_mismatch"
    ELSE ""

PlategaStatuses ==
    {"", "CONFIRMED", "confirmed", "CANCELED", "CANCELLED", "CHARGEBACKED", "PENDING"}

\* The requests delivered to /webhook/platega: behind the right headers
\* every status for the transaction of the purchase and each class of
\* status for an unknown or missing transaction id; every combination of
\* absent, right and wrong X-MerchantId / X-Secret headers; bodies that are
\* not JSON or not a JSON object, with and without the right headers; for
\* the CONFIRMED event of the purchase an amount that is the price, rounds
\* to the price, rounds to another amount, is absent or cannot be parsed.
PlategaAmounts ==
    {Amount(PriceMills), Amount(PriceMills + 4), Amount(PriceMills + 5), NoAmount, BadAmount}

PlategaRequests ==
    { [body |-> "dict", merchant |-> MerchantId, secret |-> Secret, id |-> "tx1", status |-> st,
       amount |-> Amount(PriceMills)] : st \in PlategaStatuses }
    \cup { [body |-> "dict", merchant |-> MerchantId, secret |-> Secret, id |-> "tx1",
             status |-> "CONFIRMED", amount |-> a] : a \in PlategaAmounts }
    \cup { [body |-> "dict", merchant |-> MerchantId, secret |-> Secret, id |-> i, status |-> st,
             amount |-> Amount(PriceMills)] :
             i \in {"", "tx2"}, st \in {"CONFIRMED", "CANCELED", "PENDING"} }
    \cup { [body |-> "dict", merchant |-> m, secret |-> k, id |-> "tx1", status |-> "CONFIRMED",
             amount |-> Amount(PriceMills)] :
             m \in {NULL, MerchantId, "other"}, k \in {NULL, Secret, "guess"} }
    \cup { [body |-> b, merchant |-> m, secret |-> Secret, id |-> "tx1", status |-> "CONFIRMED",
             amount |-> Amount(PriceMills)] :
             b \in {"notjson", "notdict"}, m \in {MerchantId, "other"} }

\* X-MerchantId or X-Secret is missing or differs from the configured value.
PlategaForged(req) == req.merchant # MerchantId \/ req.secret # Secret

PlategaAuth(merchant_id, secret, req) ==
    ~(req.merchant # merchant_id \/ req.secret # secret)

\* the mutant of PlategaKind: a status that is not CONFIRMED cancels
PlategaKindElseFailure(status) ==
    CASE status = "CONFIRMED" -> "success"
      [] OTHER -> "failure"

PlategaKind(status) ==
    CASE status = "CONFIRMED" -> "success"
      [] status \in {"CANCELED", "CANCELLED", "CHARGEBACKED"} -> "failure"
      [] OTHER -> "ignored"

PlategaNeverReplay(payment_status, status) == FALSE

\* the early return for a CONFIRMED event on a succeeded row
PlategaIsReplay(payment_status, status) ==
    payment_status = "succeeded" /\ status = "CONFIRMED"

PlategaWebhookBegin(h, req) ==
    /\ CanArrive(h)
    /\ LET s0 == [IdleHandler EXCEPT !.prov = "platega", !.forged = PlategaForged(req),
                                     !.body = req.body,
                                     !.status = IF req.body = "dict" THEN req.status ELSE "",
                                     !.orphan = /\ req.body = "dict"
                                                /\ Referenced(payments, 0, req.id) = {}]
           s1 == [s0 EXCEPT !.dbRead = TRUE]
       IN IF ~configured["platega"]
          THEN Finish(h, s0, Resp(503, "platega_disabled"))
          ELSE IF req.body = "notjson"
          THEN Finish(h, s0, Resp(400, "bad_request"))
          ELSE IF ~PlategaAuth(MerchantId, Secret, req)
          THEN Finish(h, s0, Resp(403, "forbidden"))
          ELSE IF req.body # "dict"
          THEN Finish(h, s0, Unhandled)      \* data.get on a non-object raises
          ELSE IF req.id = "" \/ Upper(req.status) = ""
          THEN Finish(h, s0, Resp(400, "missing_fields"))
          ELSE \/ Finish(h, [s1 EXCEPT !.lookup = "raised", !.exc = "downstream"], Unhandled)
               \/ IF get_payment_by_provider_payment_id(payments, req.id) = {}
                  THEN Finish(h, [s1 EXCEPT !.lookup = "none"], Resp(404, "payment_not_found"))
                  ELSE \E p \in get_payment_by_provider_payment_id(payments, req.id) :
                         LET s2 == [s1 EXCEPT !.pay = p, !.lookup = "found",
                                              !.readStatus = payments[p].status,
                                              !.kind = PlategaKind(Upper(req.status))]
                         IN IF PlategaIsReplay(payments[p].status, Upper(req.status))
                            THEN Finish(h, s2, Resp(200, "ok"))
                            ELSE IF s2.kind = "ignored"
                            THEN Finish(h, s2, Resp(202, "status_ignored"))
                            ELSE Continue(h, [s2 EXCEPT !.pc = "transact", !.txid = req.id,
                                                        !.amountIn = IF s2.kind = "success"
                                                                     THEN req.amount ELSE NoAmount,
                                                        !.warned = IF s2.kind = "success"
                                                                   THEN AmountWarning(req.amount, payments[p].amount)
                                                                   ELSE ""])
    /\ delivered' = delivered + 1
    /\ UNCHANGED <<otherVars, bonuses, configured, payments, grants, ini>>

PlategaSuccessBranch(h, traffic, fail, post) ==
    /\ wh[h].prov = "platega"
    /\ SuccessBranch(h, traffic, fail, post, Resp(500, "processing_error"), Resp(200, "ok"))

PlategaFailureBranch(h, ok, post) ==
    /\ wh[h].prov = "platega"
    /\ FailureBranch(h, ok, post, "canceled", Resp(500, "processing_error"), Resp(200, "ok_canceled"))

-----------------------------------------------------------------------------
(* Provider create calls: SeverPayService.create_payment and               *)
(* PlategaService.create_transaction.                                      *)

\* What session.post(...) meets: no response (a network error or a
\* timeout), or a response with its HTTP status, the kind of its body (not
\* JSON, a JSON object, another JSON value), the truth of the body's
\* "status" field (SeverPay) and the id, link and status fields of its data.
NoResponse(kind) ==
    [kind |-> kind, http |-> 0, json |-> "", status |-> FALSE,
     hasId |-> FALSE, hasLink |-> FALSE, provStatus |-> NULL]
Response(http, json, status, hasId, hasLink, provStatus) ==
    [kind |-> "response", http |-> http, json |-> json, status |-> status,
     hasId |-> hasId, hasLink |-> hasLink, provStatus |-> provStatus]

\* What the create call hands to the handler: an exception, (False, ...) or
\* (True, data).
\* message: "service_not_configured", or "other" for the text of an
\* exception or of a rejected response.
Failure ==
    [raised |-> FALSE, ok |-> FALSE, isDict |-> TRUE, hasId |-> FALSE, hasLink |-> FALSE,
     provStatus |-> NULL, message |-> "other"]
ServiceNotConfigured == [Failure EXCEPT !.message = "service_not_configured"]
Raised == [Failure EXCEPT !.raised = TRUE]
Success(o) ==
    [raised |-> FALSE, ok |-> TRUE, isDict |-> o.json = "object", hasId |-> o.hasId,
     hasLink |-> o.hasLink, provStatus |-> o.provStatus, message |-> ""]

\* the mutant of ExceptException: the exception reaches the caller
ReRaise(r) == r

\* except Exception as exc: return False, {"message": str(exc)}
ExceptException(r) == IF r.raised THEN Failure ELSE r

\* The try block of create_payment.
SeverPayPost(o) ==
    IF o.kind # "response" THEN Raised
    ELSE IF o.json = "invalid" THEN Failure
    ELSE IF o.http # 200 THEN Failure
    ELSE IF o.json # "object" THEN Raised      \* response_data.get on a value that is no dict
    ELSE IF ~o.status THEN Failure
    ELSE Success(o)

\* the mutant of create_payment: no check of self.configured
create_payment_unchecked(is_configured, o) == ExceptException(SeverPayPost(o))

create_payment(is_configured, o) ==
    IF ~is_configured THEN ServiceNotConfigured ELSE ExceptException(SeverPayPost(o))

\* The try block of create_transaction.
PlategaPost(o) ==
    IF o.kind # "response" THEN Raised
    ELSE IF o.json = "invalid" THEN Failure
    ELSE IF o.http # 200 THEN Failure
    ELSE Success(o)

create_transaction(is_configured, o) ==
    IF ~is_configured THEN ServiceNotConfigured ELSE ExceptException(PlategaPost(o))

\* Outcomes of the provider call: network error, timeout, non-200 status,
\* a body that is not JSON, a body that is JSON but no object, a false
\* provider status, and 200 with or without an id and a payment link.
SeverPayCalls ==
    {NoResponse("network_error"), NoResponse("timeout"),
     Response(500, "object", TRUE, FALSE, FALSE, NULL),
     Response(200, "invalid", FALSE, FALSE, FALSE, NULL),
     Response(200, "array", FALSE, FALSE, FALSE, NULL),
     Response(200, "object", FALSE, FALSE, FALSE, NULL)}
    \cup {Response(200, "object", TRUE, d, l, NULL) : d, l \in BOOLEAN}

\* The Platega response may carry the provider's own status.
PlategaCalls ==
    {NoResponse("network_error"), NoResponse("timeout"),
     Response(500, "object", TRUE, FALSE, FALSE, NULL),
     Response(200, "invalid", TRUE, FALSE, FALSE, NULL),
     Response(200, "array", TRUE, FALSE, FALSE, NULL)}
    \cup {Response(200, "object", TRUE, d, l, NULL) : d, l \in BOOLEAN}
    \cup {Response(200, "object", TRUE, TRUE, TRUE, "PENDING")}

\* One failed call and the calls that return an id and a payment link.
Representative(calls) ==
    {o \in calls : o.kind = "network_error"
                   \/ (o.kind = "response" /\ o.http = 200 /\ o.json = "object" /\ o.status
                         /\ o.hasId /\ o.hasLink)}

-----------------------------------------------------------------------------
(* Initiation handlers: pay_severpay_callback_handler,                     *)
(* pay_platega_callback_handler, pay_fk_callback_handler and               *)
(* _initiate_yk_payment.                                                   *)

InitiationProviders == Providers \cup {"freekassa", "yookassa"}

\* the part of the provider call's outcome the create call looked at
CallOf(o) == [kind |-> o.kind, http |-> o.http, json |-> o.json, status |-> o.status]
NotCalled == [kind |-> "", http |-> 0, json |-> "", status |-> FALSE]

\* called: the provider's create API has been called; uncommitted: the
\* handler's session holds a write that is not committed; call and the
\* result fields: the outcome and the result of the create call, held
\* until the handler has acted on them.
IdleInitiation ==
    [pc |-> "start", pay |-> 0, called |-> FALSE, uncommitted |-> FALSE,
     call |-> NotCalled, ok |-> FALSE, isDict |-> TRUE, hasId |-> FALSE, hasLink |-> FALSE,
     provStatus |-> NULL, outcome |-> ""]

\* The handler returns; the provider's response is dropped with its frame.
EndInitiation(i, s, outcome) ==
    ini' = [ini EXCEPT ![i] = [s EXCEPT !.pc = "done", !.outcome = outcome, !.call = NotCalled,
                                        !.ok = FALSE, !.isDict = TRUE, !.hasId = FALSE,
                                        !.hasLink = FALSE, !.provStatus = NULL]]

\* the mutant of session_commit: the write stays in the session
session_commit_deferred(pending) == pending

\* await session.commit(): no write of the session is left uncommitted
session_commit(pending) == FALSE

\* payment_record_payload; _initiate_yk_payment names no provider
PaymentRecordPayload(i, months) ==
    [provider |-> IF i = "yookassa" THEN NULL ELSE i,
     status |-> PendingStatus(i),
     subscription_duration_months |-> months]

\* From the button press to the committed insert of the pending row; the
\* provider's create API is called next.
InitiationBegin(i, input, months, dbOk) ==
    /\ \A j \in DOMAIN ini : ini[j].pc = "start"
    /\ input \in {"ok", "no_message", "bad_data"}
    /\ months \in StoredMonths
    /\ IF input = "no_message"
       THEN EndInitiation(i, ini[i], "error_occurred_try_again") /\ UNCHANGED payments
       ELSE IF ~configured[i]
       THEN EndInitiation(i, ini[i], "payment_service_unavailable") /\ UNCHANGED payments
       ELSE IF input = "bad_data"
       THEN EndInitiation(i, ini[i], "error_try_again") /\ UNCHANGED payments
       ELSE IF ~dbOk
       THEN EndInitiation(i, ini[i], "error_creating_payment_record") /\ UNCHANGED payments
       ELSE /\ payments' = create_payment_record(payments, PaymentRecordPayload(i, months))
            /\ ini' = [ini EXCEPT ![i] = [@ EXCEPT !.pc = "calling",
                                                   !.pay = NextPaymentId(payments),
                                                   !.uncommitted = session_commit(TRUE),
                                                   !.called = TRUE]]
    /\ wh' = Settle(wh)
    /\ UNCHANGED <<otherVars, bonuses, configured, grants, delivered>>

SeverPayPayInitiation(input, months, dbOk) == InitiationBegin("severpay", input, months, dbOk)

PlategaPayInitiation(input, months, dbOk) == InitiationBegin("platega", input, months, dbOk)

\* The create call returns result for the provider call's outcome o; an
\* exception out of it ends the handler.
CreateReturns(i, o, result) ==
    /\ ini[i].pc = "calling"
    /\ IF result.raised
       THEN EndInitiation(i, ini[i], "exception_in_create_call")
       ELSE ini' = [ini EXCEPT ![i] = [@ EXCEPT !.pc = "store", !.call = CallOf(o),
                                              !.ok = result.ok, !.isDict = result.isDict,
                                              !.hasId = result.hasId, !.hasLink = result.hasLink,
                                              !.provStatus = result.provStatus]]
    /\ wh' = Settle(wh)
    /\ UNCHANGED <<otherVars, bonuses, configured, payments, grants, delivered>>

SeverPayCreatePayment(o) ==
    /\ o \in SeverPayCalls
    /\ CreateReturns("severpay", o, create_payment(configured["severpay"], o))

PlategaCreateTransaction(o) ==
    /\ o \in PlategaCalls
    /\ CreateReturns("platega", o, create_transaction(configured["platega"], o))

\* After a successful create call (SeverPay, FreeKassa): store the provider
\* id with the status the handler holds in payment_record.status, then show
\* the link if there is one.
StoreIdThenLink(i, dbOk) ==
    LET s == ini[i] IN
    /\ s.pc = "store"
    /\ IF s.ok /\ s.hasId /\ dbOk
       THEN payments' = update_provider_payment_and_status(
                            payments, s.pay, TxOf(s.pay), PendingStatus(i))
       ELSE UNCHANGED payments
    /\ IF s.ok /\ s.hasLink
       THEN EndInitiation(i, s, "payment_link_message")
       ELSE ini' = [ini EXCEPT ![i] = [@ EXCEPT !.pc = "failed_creation", !.call = NotCalled]]
    /\ wh' = Settle(wh)
    /\ UNCHANGED <<otherVars, bonuses, configured, grants, delivered>>

SeverPayStoreResult(dbOk) == StoreIdThenLink("severpay", dbOk)

\* provider_status = response_data.get("status", payment_record.status)
PlategaProviderStatus(s) ==
    IF s.provStatus # NULL THEN s.provStatus ELSE PendingStatus("platega")

\* response_data.get(...) on data that is no dict raises out of the handler.
PlategaStoreResult(dbOk) ==
    LET s == ini["platega"] IN
    /\ s.pc = "store"
    /\ IF s.ok /\ ~s.isDict
       THEN /\ UNCHANGED payments
            /\ EndInitiation("platega", s, "exception_in_handler")
       ELSE IF s.ok /\ s.hasId /\ s.hasLink
       THEN /\ IF dbOk
               THEN payments' = update_provider_payment_and_status(
                                    payments, s.pay, TxOf(s.pay), PlategaProviderStatus(s))
               ELSE UNCHANGED payments
            /\ EndInitiation("platega", s, "payment_link_message")
       ELSE /\ UNCHANGED payments
            /\ ini' = [ini EXCEPT !["platega"] = [@ EXCEPT !.pc = "failed_creation", !.call = NotCalled]]
    /\ wh' = Settle(wh)
    /\ UNCHANGED <<otherVars, bonuses, configured, grants, delivered>>

\* The tail of the handlers: mark the row failed_creation (rolled back if
\* the write fails) and show the gateway error.
MarkFailedCreation(i, dbOk) ==
    /\ ini[i].pc = "failed_creation"
    /\ IF dbOk
       THEN payments' = update_payment_status_by_db_id(payments, ini[i].pay, "failed_creation")
       ELSE UNCHANGED payments
    /\ EndInitiation(i, ini[i], "error_payment_gateway")
    /\ wh' = Settle(wh)
    /\ UNCHANGED <<otherVars, bonuses, configured, grants, delivered>>

SeverPayMarkFailedCreation(dbOk) == MarkFailedCreation("severpay", dbOk)

PlategaMarkFailedCreation(dbOk) == MarkFailedCreation("platega", dbOk)

\* pay_fk_callback_handler.  FreeKassaService.create_order returns
\* (False, ...) or (True, data) with or without an order id and a location.
FreeKassaPayInitiation(input, months, dbOk) == InitiationBegin("freekassa", input, months, dbOk)

FreeKassaCreateResults ==
    {Failure} \cup {Success(Response(200, "object", TRUE, d, l, NULL)) : d, l \in BOOLEAN}

FreeKassaCreateOrder(result) ==
    /\ result \in FreeKassaCreateResults
    /\ CreateReturns("freekassa", NoResponse(""), result)

FreeKassaStoreResult(dbOk) == StoreIdThenLink("freekassa", dbOk)

FreeKassaMarkFailedCreation(dbOk) == MarkFailedCreation("freekassa", dbOk)

\* pay_yk_callback_handler and _initiate_yk_payment.
\* YooKassaService.create_payment returns None or the payment, with or
\* without a confirmation_url and a status.
YooKassaPayInitiation(input, months, dbOk) == InitiationBegin("yookassa", input, months, dbOk)

YooKassaCreateResults ==
    {Failure} \cup {Success(Response(200, "object", TRUE, TRUE, l, st)) :
                       l \in BOOLEAN, st \in {NULL, "pending"}}

YooKassaCreatePayment(result) ==
    /\ result \in YooKassaCreateResults
    /\ CreateReturns("yookassa", NoResponse(""), result)

\* payment_response_yk.get("status", "pending")
YooKassaStatusToStore(s) == IF s.provStatus # NULL THEN s.provStatus ELSE "pending"

\* With a confirmation_url, or without one for a charge of a saved card
\* (payment_method_id), the status of the response is stored with the
\* provider's id; a failure of that write ends the handler with an error
\* text.  Otherwise the creation has failed.
YooKassaStoreResult(saved_card, dbOk) ==
    LET s == ini["yookassa"] IN
    /\ s.pc = "store"
    /\ IF s.ok /\ (s.hasLink \/ saved_card)
       THEN IF dbOk
            THEN /\ payments' = update_payment_status_with_yk_id(
                                     payments, s.pay, YooKassaStatusToStore(s), TxOf(s.pay))
                 /\ EndInitiation("yookassa", s,
                                  IF s.hasLink THEN "payment_link_message"
                                  ELSE "yookassa_autopay_charge_initiated")
            ELSE /\ UNCHANGED payments
                 /\ EndInitiation("yookassa", s,
                                  IF s.hasLink THEN "error_payment_gateway_link_failed"
                                  ELSE "error_payment_gateway")
       ELSE /\ UNCHANGED payments
            /\ ini' = [ini EXCEPT !["yookassa"] = [@ EXCEPT !.pc = "failed_creation", !.call = NotCalled]]
    /\ wh' = Settle(wh)
    /\ UNCHANGED <<otherVars, bonuses, configured, grants, delivered>>

YooKassaMarkFailedCreation(dbOk) == MarkFailedCreation("yookassa", dbOk)

-----------------------------------------------------------------------------
(* Specification.                                                          *)

Init ==
    /\ configured \in [Providers -> BOOLEAN]
    /\ payments = [p \in {} |-> 0]
    /\ grants = [p \in PaymentIds |-> 0]
    /\ bonuses = [p \in PaymentIds |-> 0]
    /\ wh = [h \in Handlers |-> IdleHandler]
    /\ ini = [i \in Providers |-> IdleInitiation]
    /\ delivered = 0
    /\ InitOthers

Next ==
    \/ \E input \in {"ok", "no_message", "bad_data"}, months \in StoredMonths, dbOk \in BOOLEAN :
          SeverPayPayInitiation(input, months, dbOk)
    \/ \E input \in {"ok", "no_message", "bad_data"}, months \in StoredMonths, dbOk \in BOOLEAN :
          PlategaPayInitiation(input, months, dbOk)
    \/ \E o \in Representative(SeverPayCalls) : SeverPayCreatePayment(o)
    \/ \E o \in Representative(PlategaCalls) : PlategaCreateTransaction(o)
    \/ \E dbOk \in BOOLEAN : SeverPayStoreResult(dbOk)
    \/ \E dbOk \in BOOLEAN : PlategaStoreResult(dbOk)
    \/ \E dbOk \in BOOLEAN : SeverPayMarkFailedCreation(dbOk)
    \/ \E dbOk \in BOOLEAN : PlategaMarkFailedCreation(dbOk)
    \/ \E h \in Handlers, req \in SeverPayRequests : SeverPayWebhookBegin(h, req)
    \/ \E h \in Handlers, req \in PlategaRequests : PlategaWebhookBegin(h, req)
    \/ \E h \in Handlers, traffic \in BOOLEAN,
          fail \in {"none", "update", "activate", "bonus", "commit"}, post \in PostCommitFailures :
          SeverPaySuccessBranch(h, traffic, fail, post)
    \/ \E h \in Handlers, traffic \in BOOLEAN,
          fail \in {"none", "update", "activate", "bonus", "commit"}, post \in PostCommitFailures :
          PlategaSuccessBranch(h, traffic, fail, post)
    \/ \E h \in Handlers, ok \in BOOLEAN, post \in {"none", "lookup", "send"} :
          SeverPayFailureBranch(h, ok, post)
    \/ \E h \in Handlers, ok \in BOOLEAN, post \in {"none", "lookup", "send"} :
          PlategaFailureBranch(h, ok, post)
    \/ \E h \in Handlers, ok \in BOOLEAN : SeverPayPendingBranch(h, ok)

Spec == Init /\ [][Next]_vars

\* The four initiation handlers alone, with every outcome of the provider
\* call and no webhook delivery.
InitInitiation ==
    /\ configured \in [InitiationProviders -> BOOLEAN]
    /\ payments = [p \in {} |-> 0]
    /\ grants = [p \in PaymentIds |-> 0]
    /\ bonuses = [p \in PaymentIds |-> 0]
    /\ wh = [h \in Handlers |-> IdleHandler]
    /\ ini = [i \in InitiationProviders |-> IdleInitiation]
    /\ delivered = 0
    /\ InitOthers

NextInitiation ==
    \/ \E input \in {"ok", "no_message", "bad_data"}, months \in StoredMonths, dbOk \in BOOLEAN :
          SeverPayPayInitiation(input, months, dbOk)
    \/ \E input \in {"ok", "no_message", "bad_data"}, months \in StoredMonths, dbOk \in BOOLEAN :
          PlategaPayInitiation(input, months, dbOk)
    \/ \E input \in {"ok", "no_message", "bad_data"}, months \in StoredMonths, dbOk \in BOOLEAN :
          FreeKassaPayInitiation(input, months, dbOk)
    \/ \E input \in {"ok", "no_message", "bad_data"}, months \in StoredMonths, dbOk \in BOOLEAN :
          YooKassaPayInitiation(input, months, dbOk)
    \/ \E o \in SeverPayCalls : SeverPayCreatePayment(o)
    \/ \E o \in PlategaCalls : PlategaCreateTransaction(o)
    \/ \E result \in FreeKassaCreateResults : FreeKassaCreateOrder(result)
    \/ \E result \in YooKassaCreateResults : YooKassaCreatePayment(result)
    \/ \E dbOk \in BOOLEAN : SeverPayStoreResult(dbOk)
    \/ \E dbOk \in BOOLEAN : PlategaStoreResult(dbOk)
    \/ \E dbOk \in BOOLEAN : FreeKassaStoreResult(dbOk)
    \/ \E saved_card \in BOOLEAN, dbOk \in BOOLEAN : YooKassaStoreResult(saved_card, dbOk)
    \/ \E dbOk \in BOOLEAN : SeverPayMarkFailedCreation(dbOk)
    \/ \E dbOk \in BOOLEAN : PlategaMarkFailedCreation(dbOk)
    \/ \E dbOk \in BOOLEAN : FreeKassaMarkFailedCreation(dbOk)
    \/ \E dbOk \in BOOLEAN : YooKassaMarkFailedCreation(dbOk)

InitiationSpec == InitInitiation /\ [][NextInitiation]_vars

\* The row lookup of the SeverPay route alone, over tables of one and two
\* rows whose provider ids may name either row.
LookupRow(ppid) ==
    [provider |-> "severpay", status |-> "pending_severpay", provider_payment_id |-> ppid,
     user_id |-> BuyerId, amount |-> PriceMills, subscription_duration_months |-> 3]

LookupTables ==
    { [p \in {1} |-> LookupRow(a)] : a \in {NULL, "tx1", "tx2"} }
    \cup { [p \in {1, 2} |-> IF p = 1 THEN LookupRow(a) ELSE LookupRow(b)] :
             a \in {NULL, "tx1", "tx2"}, b \in {NULL, "tx1", "tx2"} }

LookupContents ==
    { [type |-> "payin", dataIsDict |-> TRUE, dataEmpty |-> FALSE, id |-> i, order_id |-> o, status |-> st] :
        i \in {"", "tx1", "tx2"},
        o \in {IntOrder(1), IntOrder(2), StrOrder("1"), StrOrder("2"), StrOrder("abc"), NoOrder},
        st \in {"success", "hold"} }

LookupRequests == { WithSign(c, "dict", Hmac(Token, c)) : c \in LookupContents }

InitLookup ==
    /\ configured = [v \in Providers |-> TRUE]
    /\ payments \in LookupTables
    /\ grants = [p \in PaymentIds |-> 0]
    /\ bonuses = [p \in PaymentIds |-> 0]
    /\ wh = [h \in Handlers |-> IdleHandler]
    /\ ini = [i \in Providers |-> IdleInitiation]
    /\ delivered = 0
    /\ InitOthers

NextLookup ==
    \E h \in Handlers, req \in LookupRequests : SeverPayWebhookBegin(h, req)

LookupSpec == InitLookup /\ [][NextLookup]_vars


-----------------------------------------------------------------------------
(* SeverPay signatures on whole bodies: _build_signed_body and             *)
(* _validate_signature (severpay_service.py).                              *)

\* The payment variables of a specification that handles no payment.
InitPaymentsIdle ==
    /\ configured = [v \in Providers |-> FALSE]
    /\ payments = [p \in {} |-> 0]
    /\ grants = [p \in PaymentIds |-> 0]
    /\ bonuses = [p \in PaymentIds |-> 0]
    /\ wh = [h \in Handlers |-> IdleHandler]
    /\ ini = [i \in Providers |-> IdleInitiation]
    /\ delivered = 0

\* settings.SEVERPAY_MID
Mid == "mid1"

\* A JSON value: a string of ASCII characters, a string with a character
\* outside ASCII, or a digest.  Digests are Hmac(key, message), which has
\* the same fields.
TextValue(t) == [kind |-> "str", key |-> t, msg |-> <<>>]
NonAsciiValue == [kind |-> "ustr", key |-> "", msg |-> <<>>]

\* A dict is the sequence of its items in insertion order.
Item(k, v) == [k |-> k, v |-> v]
HasKey(items, k) == \E i \in DOMAIN items : items[i].k = k
GetItem(items, k, default) ==
    IF HasKey(items, k) THEN items[CHOOSE i \in DOMAIN items : items[i].k = k].v ELSE default
\* d[k] = v: an existing key keeps its place, a new key goes to the end
SetItem(items, k, v) ==
    IF HasKey(items, k)
    THEN [i \in DOMAIN items |-> IF items[i].k = k THEN Item(k, v) ELSE items[i]]
    ELSE Append(items, Item(k, v))
\* {k: v for k, v in payload.items() if k != key}
WithoutKey(items, key) == SelectSeq(items, LAMBDA it : it.k # key)
RemoveAt(items, i) == SubSeq(items, 1, i - 1) \o SubSeq(items, i + 1, Len(items))

\* the order of the keys as Python compares strings
BodyKeys == {"amount", "lifetime", "mid", "order_id", "salt", "url_return"}
KeyRank(k) ==
    CASE k = "amount" -> 1
      [] k = "lifetime" -> 2
      [] k = "mid" -> 3
      [] k = "order_id" -> 4
      [] k = "salt" -> 5
      [] k = "sign" -> 6
      [] k = "url_return" -> 7
      [] OTHER -> 8

\* dict(sorted(body.items())) of a dict given as a function
RECURSIVE SortedItems(_)
SortedItems(body) ==
    IF DOMAIN body = {} THEN <<>>
    ELSE LET k == CHOOSE k \in DOMAIN body : \A j \in DOMAIN body : KeyRank(k) <= KeyRank(j)
         IN <<Item(k, body[k])>> \o SortedItems([j \in DOMAIN body \ {k} |-> body[j]])

_build_signed_body(token, salt, extra) ==
    LET body == [k \in {"mid", "salt"} \cup DOMAIN extra |->
                    IF k \in DOMAIN extra THEN extra[k]
                    ELSE IF k = "mid" THEN TextValue(Mid) ELSE TextValue(salt)]
        sorted_body == SortedItems(body)
    IN SetItem(sorted_body, "sign", _sign_payload(token, sorted_body))

\* _validate_signature on a payload given as its items: "accept" (True),
\* "reject" (False) or "raise" (hmac.compare_digest raises TypeError for a
\* str with a character outside ASCII).  A sign that is absent or falsy
\* reads as "".
ValidateSignature(token, payload) ==
    LET provided_sign == GetItem(payload, "sign", TextValue(""))
        data == WithoutKey(payload, "sign")
        expected_sign == _sign_payload(token, data)
    IN IF provided_sign = TextValue("") \/ token = "" THEN "reject"
       ELSE IF provided_sign.kind = "ustr" THEN "raise"
       ELSE IF provided_sign = expected_sign THEN "accept"
       ELSE "reject"

\* The bodies create_payment passes to _build_signed_body: order_id,
\* amount and url_return (currency, client_email and client_id are like
\* them), with lifetime when SEVERPAY_LIFETIME_MINUTES is set.
ExtraBodies ==
    { [k \in {"order_id", "amount", "url_return"} \cup lt |->
          CASE k = "order_id" -> TextValue(o)
            [] k = "amount" -> TextValue(a)
            [] k = "url_return" -> TextValue("https://t.me/bot")
            [] OTHER -> TextValue("30")] :
        o \in {"1", "2"}, a \in {"299.00", "1.00"}, lt \in {{}, {"lifetime"}} }

Salts == {"s1", "s2"}

\* the sign values a tampered payload can carry
ForgedSigns(token, payload) ==
    { Hmac("guess", WithoutKey(payload, "sign")),
      Hmac(token, <<>>),
      TextValue("deadbeef"),
      NonAsciiValue }

IdleSignature(token, payload) ==
    [pc |-> "built", token |-> token, payload |-> payload, tamper |-> "none", result |-> ""]

InitSignature ==
    /\ sig \in { IdleSignature(t, _build_signed_body(t, salt, e)) :
                   t \in {Token, ""}, salt \in Salts, e \in ExtraBodies }
    /\ InitPaymentsIdle
    /\ autorenew = NULL /\ gate = NULL /\ userdb = NULL /\ refcode = NULL
    /\ relations = NULL /\ clients = NULL
    /\ lknpd = NULL /\ refdb = NULL

signatureIdle == <<paymentVars, receiptVars, autorenew, gate, userdb, refcode, relations, clients>>

Tampered(kind, payload) ==
    /\ sig.pc = "built"
    /\ payload # sig.payload
    /\ sig' = [sig EXCEPT !.pc = "tampered", !.tamper = kind, !.payload = payload]
    /\ UNCHANGED signatureIdle

\* The payload on the wire is changed in one of the ways a forger can try.
TamperValue(i) ==
    /\ i \in DOMAIN sig.payload /\ sig.payload[i].k # "sign"
    /\ Tampered("value", [sig.payload EXCEPT ![i].v = TextValue("changed")])

TamperAddKey ==
    Tampered("key_added", Append(sig.payload, Item("zzz", TextValue("x"))))

TamperRemoveKey(i) ==
    /\ i \in DOMAIN sig.payload /\ sig.payload[i].k # "sign"
    /\ Tampered("key_removed", RemoveAt(sig.payload, i))

TamperSign(v) ==
    /\ v \in ForgedSigns(sig.token, sig.payload)
    /\ Tampered("sign_changed", SetItem(sig.payload, "sign", v))

TamperSignMissing ==
    Tampered("sign_missing", WithoutKey(sig.payload, "sign"))

TamperSignEmpty ==
    Tampered("sign_empty", SetItem(sig.payload, "sign", TextValue("")))

\* webhook_route hands the parsed payload to _validate_signature.
Validate ==
    /\ sig.pc \in {"built", "tampered"}
    /\ sig' = [sig EXCEPT !.pc = "validated", !.result = ValidateSignature(sig.token, sig.payload)]
    /\ UNCHANGED signatureIdle

NextSignature ==
    \/ \E i \in DOMAIN sig.payload : TamperValue(i)
    \/ TamperAddKey
    \/ \E i \in DOMAIN sig.payload : TamperRemoveKey(i)
    \/ \E v \in ForgedSigns(sig.token, sig.payload) : TamperSign(v)
    \/ TamperSignMissing
    \/ TamperSignEmpty
    \/ Validate

SignatureSpec == InitSignature /\ [][NextSignature]_vars

-----------------------------------------------------------------------------
(* Provider HTTP sessions: _get_session and close of SeverPayService and   *)
(* PlategaService.                                                         *)

\* ClientSessions created in a behaviour
MaxSessions == 3

Services == {"severpay", "platega"}

\* ref: self._session of each service, 0 for None; sess: the ClientSession
\* objects in order of creation, each with the service that made it and
\* its closed flag; closing: the sessions whose close() is being awaited;
\* last: the latest call and what it returned
NoLast == [op |-> "", svc |-> "", id |-> 0, prev |-> 0, prevOpen |-> FALSE, closedAtReturn |-> FALSE]

InitClients ==
    /\ clients = [ref |-> [v \in Services |-> 0], sess |-> <<>>, closing |-> {}, last |-> NoLast]
    /\ InitPaymentsIdle
    /\ autorenew = NULL /\ gate = NULL /\ userdb = NULL /\ refcode = NULL
    /\ relations = NULL /\ sig = NULL
    /\ lknpd = NULL /\ refdb = NULL

clientsIdle == <<paymentVars, receiptVars, autorenew, gate, userdb, refcode, relations, sig>>

IsOpen(c, id) == id # 0 /\ ~c.sess[id].closed

\* the mutant of SessionIsMissing: only None counts
SessionIsNone(c, svc) == c.ref[svc] = 0

\* self._session is None or self._session.closed
SessionIsMissing(c, svc) ==
    c.ref[svc] = 0 \/ c.sess[c.ref[svc]].closed

\* _get_session has no await: it runs as one step.
GetSession(svc) ==
    /\ LET fresh == SessionIsMissing(clients, svc)
           id == IF fresh THEN Len(clients.sess) + 1 ELSE clients.ref[svc]
           sess1 == IF fresh
                    THEN Append(clients.sess, [owner |-> svc, closed |-> FALSE])
                    ELSE clients.sess
       IN /\ fresh => Len(clients.sess) < MaxSessions
          /\ clients' = [clients EXCEPT
                            !.ref[svc] = id,
                            !.sess = sess1,
                            !.last = [op |-> "get", svc |-> svc, id |-> id,
                                      prev |-> clients.ref[svc],
                                      prevOpen |-> IsOpen(clients, clients.ref[svc]),
                                      closedAtReturn |-> sess1[id].closed]]
    /\ UNCHANGED clientsIdle

\* close() up to the await: nothing to do when there is no session or it is
\* closed, else session.close() starts.  aiohttp sets the closed flag at
\* the start of close() or when it has finished, depending on the version
\* and the connector.
CloseBegin(svc, flagFirst) ==
    /\ LET id == clients.ref[svc]
       IN IF ~IsOpen(clients, id)
          THEN clients' = [clients EXCEPT
                              !.last = [NoLast EXCEPT !.op = "close_noop", !.svc = svc, !.id = id]]
          ELSE clients' = [clients EXCEPT
                              !.closing = @ \cup {id},
                              !.sess[id].closed = flagFirst,
                              !.last = [NoLast EXCEPT !.op = "close_begin", !.svc = svc, !.id = id]]
    /\ UNCHANGED clientsIdle

\* await self._session.close() returns.
CloseEnd(id) ==
    /\ id \in clients.closing
    /\ clients' = [clients EXCEPT
                      !.closing = @ \ {id},
                      !.sess[id].closed = TRUE,
                      !.last = [NoLast EXCEPT !.op = "close_end", !.svc = clients.sess[id].owner,
                                              !.id = id]]
    /\ UNCHANGED clientsIdle

NextClients ==
    \/ \E svc \in Services : GetSession(svc)
    \/ \E svc \in Services, flagFirst \in BOOLEAN : CloseBegin(svc, flagFirst)
    \/ \E id \in 1..MaxSessions : CloseEnd(id)

ClientsSpec == InitClients /\ [][NextClients]_vars

-----------------------------------------------------------------------------
(* Auto-renew callbacks (bot/handlers/user/subscription/core.py).          *)

\* Telegram users: the buyer and another user
TelegramUsers == {BuyerId, 8}
\* subscription ids a callback can name: the buyer's subscription and an id
\* of no subscription
SubscriptionIds == {1, 2}

NoCallback == [handler |-> "", caller |-> 0, parsed |-> FALSE, sub_id |-> 0, enable |-> FALSE,
               answer |-> "", updated |-> FALSE]

\* flag: settings.yookassa_autopayments_active; subs: the subscriptions
\* table; cards: the users with a saved payment method; last: the latest
\* callback and its outcome.  The callback data come from the keyboards in
\* the users' chats, which stay there after the settings have changed.
InitAutoRenew ==
    /\ \E flag \in BOOLEAN, provider \in {"yookassa", "severpay"}, enabled \in BOOLEAN,
          cards \in SUBSET TelegramUsers :
          autorenew = [flag |-> flag,
                       subs |-> [i \in {1} |-> [user_id |-> BuyerId, provider |-> provider,
                                                auto_renew_enabled |-> enabled]],
                       cards |-> cards,
                       last |-> NoCallback]
    /\ InitPaymentsIdle
    /\ gate = NULL /\ userdb = NULL /\ refcode = NULL
    /\ relations = NULL /\ clients = NULL /\ sig = NULL
    /\ lknpd = NULL /\ refdb = NULL

autoRenewIdle == <<paymentVars, receiptVars, gate, userdb, refcode, relations, clients, sig>>

\* user_billing_dal.user_has_saved_payment_method
user_has_saved_payment_method(a, user_id) == user_id \in a.cards

\* subscription_dal.update_subscription(session, id, {"auto_renew_enabled": v})
update_auto_renew(subs, id, v) == [subs EXCEPT ![id].auto_renew_enabled = v]

\* The checks toggle_autorenew_handler and confirm_autorenew_handler make
\* before they act: "" when the callback passes, else the alert.
AutoRenewRefusal(a, caller, parsed, sub_id, enable) ==
    IF ~parsed THEN "error_try_again"
    ELSE IF sub_id \notin DOMAIN a.subs \/ a.subs[sub_id].user_id # caller THEN "error_try_again"
    ELSE IF a.subs[sub_id].provider # "yookassa" THEN "error_try_again"
    ELSE IF enable /\ ~user_has_saved_payment_method(a, caller) THEN "autorenew_enable_requires_card"
    ELSE ""

AutoRenewCallback(handler, caller, parsed, sub_id, enable, answer, updated) ==
    [handler |-> handler, caller |-> caller, parsed |-> parsed, sub_id |-> sub_id,
     enable |-> enable, answer |-> answer, updated |-> updated]

\* toggle_autorenew:<sub_id>:<enable>: shows the confirmation keyboard
toggle_autorenew_handler(caller, parsed, sub_id, enable) ==
    /\ LET refusal == AutoRenewRefusal(autorenew, caller, parsed, sub_id, enable)
       IN autorenew' = [autorenew EXCEPT !.last =
             AutoRenewCallback("toggle", caller, parsed, sub_id, enable,
                               IF refusal # "" THEN refusal
                               ELSE IF enable THEN "autorenew_confirm_enable"
                               ELSE "autorenew_confirm_disable", FALSE)]
    /\ UNCHANGED autoRenewIdle

\* autorenew:confirm:<sub_id>:<enable>: writes the flag and commits; an
\* exception in the write or the commit leaves the handler.
confirm_autorenew_handler(caller, parsed, sub_id, enable, dbOk) ==
    /\ LET refusal == AutoRenewRefusal(autorenew, caller, parsed, sub_id, enable)
       IN IF refusal # ""
          THEN autorenew' = [autorenew EXCEPT !.last =
                  AutoRenewCallback("confirm", caller, parsed, sub_id, enable, refusal, FALSE)]
          ELSE IF ~dbOk
          THEN autorenew' = [autorenew EXCEPT !.last =
                  AutoRenewCallback("confirm", caller, parsed, sub_id, enable, "exception", FALSE)]
          ELSE autorenew' = [autorenew EXCEPT
                  !.subs = update_auto_renew(autorenew.subs, sub_id, enable),
                  !.last = AutoRenewCallback("confirm", caller, parsed, sub_id, enable,
                                             "subscription_autorenew_updated", TRUE)]
    /\ UNCHANGED autoRenewIdle

\* autorenew:cancel: switches auto-renew off on the caller's subscription
autorenew_cancel_from_webhook_button(caller) ==
    /\ LET mine == {i \in DOMAIN autorenew.subs : autorenew.subs[i].user_id = caller}
       IN IF mine = {}
          THEN autorenew' = [autorenew EXCEPT !.last =
                  AutoRenewCallback("cancel", caller, TRUE, 0, FALSE, "subscription_not_active", FALSE)]
          ELSE \E i \in mine :
                 IF autorenew.subs[i].provider # "yookassa"
                 THEN autorenew' = [autorenew EXCEPT !.last =
                         AutoRenewCallback("cancel", caller, TRUE, i, FALSE, "error_try_again", FALSE)]
                 ELSE autorenew' = [autorenew EXCEPT
                         !.subs = update_auto_renew(autorenew.subs, i, FALSE),
                         !.last = AutoRenewCallback("cancel", caller, TRUE, i, FALSE,
                                                    "subscription_autorenew_updated", TRUE)]
    /\ UNCHANGED autoRenewIdle

\* A payment saves a card of the user, or the user deletes the saved card.
SaveCard(u) ==
    /\ u \notin autorenew.cards
    /\ autorenew' = [autorenew EXCEPT !.cards = @ \cup {u}, !.last = NoCallback]
    /\ UNCHANGED autoRenewIdle

DeleteCard(u) ==
    /\ u \in autorenew.cards
    /\ autorenew' = [autorenew EXCEPT !.cards = @ \ {u}, !.last = NoCallback]
    /\ UNCHANGED autoRenewIdle

NextAutoRenew ==
    \/ \E caller \in TelegramUsers, parsed \in BOOLEAN, sub_id \in SubscriptionIds, enable \in BOOLEAN :
          toggle_autorenew_handler(caller, parsed, sub_id, enable)
    \/ \E caller \in TelegramUsers, parsed \in BOOLEAN, sub_id \in SubscriptionIds, enable \in BOOLEAN,
          dbOk \in BOOLEAN :
          confirm_autorenew_handler(caller, parsed, sub_id, enable, dbOk)
    \/ \E caller \in TelegramUsers : autorenew_cancel_from_webhook_button(caller)
    \/ \E u \in TelegramUsers : SaveCard(u)
    \/ \E u \in TelegramUsers : DeleteCard(u)

AutoRenewSpec == InitAutoRenew /\ [][NextAutoRenew]_vars

-----------------------------------------------------------------------------
(* ChannelSubscriptionMiddleware.__call__                                  *)
(* (bot/middlewares/channel_subscription.py).                              *)

\* settings.REQUIRED_CHANNEL_ID: 0 when it is not set
ChannelIds == {100, 200}
RequiredChannelIds == {0, 100}

\* data.get("event_from_user"): no user, an admin or another user
EventUsers == {"none", "admin", "member"}

\* The update: a message with a text, a message without one, a callback
\* query with or without data and message, or an update of another kind
\* (event.message and event.callback_query are both None).
Updates ==
    { [kind |-> "message", text |-> t, data |-> "", hasMessage |-> TRUE] :
        t \in {"/start", "/start ref_7", "/help", "start", ""} }
    \cup { [kind |-> "callback", text |-> "", data |-> d, hasMessage |-> hm] :
             d \in {"channel_subscription:verify", "main_action:subscribe", ""},
             hm \in BOOLEAN }
    \cup { [kind |-> "other", text |-> "", data |-> "", hasMessage |-> FALSE] }

\* message_object.text.startswith("/start") on the texts above
StartsWithStart(text) == text \in {"/start", "/start ref_7"}

\* The user's row: absent, or its two channel fields (verified_for = 0 for
\* None).
NoUserRow == [exists |-> FALSE, channel_subscription_verified |-> FALSE,
              channel_subscription_verified_for |-> 0]
UserRows ==
    {NoUserRow} \cup
    { [exists |-> TRUE, channel_subscription_verified |-> v,
       channel_subscription_verified_for |-> c] : v \in BOOLEAN, c \in {0} \cup ChannelIds }

\* the mutant of PassedCheck: the channel the user was verified for is not
\* compared
PassedAnyCheck(db_user, required_channel_id) ==
    db_user.channel_subscription_verified

PassedCheck(db_user, required_channel_id) ==
    /\ db_user.channel_subscription_verified
    /\ db_user.channel_subscription_verified_for = required_channel_id

\* How the prompt goes out: the alert and a message in the chat of the
\* callback, a reply to the message, or bot.send_message.
PromptRoute(update) ==
    IF update.kind = "callback"
    THEN IF update.hasMessage THEN "alert_and_answer" ELSE "alert_and_send_message"
    ELSE IF update.kind = "message" THEN "answer"
    ELSE "send_message"

NoVerdict == [handler |-> FALSE, prompt |-> "", logged |-> FALSE]

\* The outcome of __call__: whether the downstream handler was invoked, the
\* route of the prompt, and whether the read of the user row failed and was
\* logged.
MiddlewareCall(g) ==
    LET pass == [NoVerdict EXCEPT !.handler = TRUE]
    IN IF g.required = 0 THEN pass
       ELSE IF g.user \in {"none", "admin"} THEN pass
       ELSE IF g.update.kind = "callback" /\ g.update.data = "channel_subscription:verify" THEN pass
       ELSE IF g.update.kind = "message" /\ g.update.text # "" /\ StartsWithStart(g.update.text)
       THEN pass
       ELSE IF ~g.readOk THEN [pass EXCEPT !.logged = TRUE]
       ELSE IF ~g.row.exists THEN pass
       ELSE IF PassedCheck(g.row, g.required) THEN pass
       ELSE [NoVerdict EXCEPT !.prompt = PromptRoute(g.update)]

InitGate ==
    /\ gate \in { [pc |-> "received", required |-> r, user |-> u, update |-> up, row |-> row,
                   readOk |-> ok, verdict |-> NoVerdict] :
                    r \in RequiredChannelIds, u \in EventUsers, up \in Updates,
                    row \in UserRows, ok \in BOOLEAN }
    /\ InitPaymentsIdle
    /\ autorenew = NULL /\ userdb = NULL /\ refcode = NULL
    /\ relations = NULL /\ clients = NULL /\ sig = NULL
    /\ lknpd = NULL /\ refdb = NULL

gateIdle == <<paymentVars, receiptVars, autorenew, userdb, refcode, relations, clients, sig>>

ChannelSubscriptionMiddleware ==
    /\ gate.pc = "received"
    /\ gate' = [gate EXCEPT !.pc = "done", !.verdict = MiddlewareCall(gate)]
    /\ UNCHANGED gateIdle

NextGate == ChannelSubscriptionMiddleware

GateSpec == InitGate /\ [][NextGate]_vars

-----------------------------------------------------------------------------
(* generate_unique_referral_code (db/dal/user_dal.py).                     *)

MAX_REFERRAL_CODE_ATTEMPTS == 25

\* The codes _generate_referral_code_candidate can draw (a few of the 36^9).
ReferralCodes == {"AAAAAAAAA", "BBBBBBBBB", "CCCCCCCCC"}

\* the mutant of _referral_code_exists: no code is ever found
_referral_code_never_exists(taken, code) == FALSE

\* select(User.user_id).where(User.referral_code == code) on the codes the
\* users table holds
_referral_code_exists(taken, code) == code \in taken

\* pc: "loop", "returned", "raised" (RuntimeError) or "db_error" (the query
\* raised); checks: candidates checked so far; collisions: checks that
\* found the candidate in the table; taken: the referral codes in the users
\* table, which other sessions change while the loop runs.
InitRefCode ==
    /\ refcode \in { [pc |-> "loop", checks |-> 0, collisions |-> 0, taken |-> t, result |-> ""] :
                       t \in SUBSET ReferralCodes }
    /\ InitPaymentsIdle
    /\ autorenew = NULL /\ gate = NULL /\ userdb = NULL
    /\ relations = NULL /\ clients = NULL /\ sig = NULL
    /\ lknpd = NULL /\ refdb = NULL

refCodeIdle == <<paymentVars, receiptVars, autorenew, gate, userdb, relations, clients, sig>>

\* One pass of the for loop: a candidate is drawn and looked up; the raise
\* after the last pass belongs to that pass.
generate_unique_referral_code(candidate, dbOk) ==
    /\ refcode.pc = "loop"
    /\ refcode.checks < MAX_REFERRAL_CODE_ATTEMPTS
    /\ LET n == refcode.checks + 1
       IN IF ~dbOk
          THEN refcode' = [refcode EXCEPT !.pc = "db_error"]
          ELSE IF ~_referral_code_exists(refcode.taken, candidate)
          THEN refcode' = [refcode EXCEPT !.pc = "returned", !.checks = n, !.result = candidate]
          ELSE refcode' = [refcode EXCEPT
                              !.pc = IF n = MAX_REFERRAL_CODE_ATTEMPTS THEN "raised" ELSE "loop",
                              !.checks = n,
                              !.collisions = @ + 1]
    /\ UNCHANGED refCodeIdle

\* Another session commits a user with this code, or deletes the user that
\* had it.
ReferralCodeTaken(code) ==
    /\ refcode.pc = "loop" /\ code \notin refcode.taken
    /\ refcode' = [refcode EXCEPT !.taken = @ \cup {code}]
    /\ UNCHANGED refCodeIdle

ReferralCodeFreed(code) ==
    /\ refcode.pc = "loop" /\ code \in refcode.taken
    /\ refcode' = [refcode EXCEPT !.taken = @ \ {code}]
    /\ UNCHANGED refCodeIdle

NextRefCode ==
    \/ \E candidate \in ReferralCodes, dbOk \in BOOLEAN : generate_unique_referral_code(candidate, dbOk)
    \/ \E code \in ReferralCodes : ReferralCodeTaken(code)
    \/ \E code \in ReferralCodes : ReferralCodeFreed(code)

RefCodeSpec == InitRefCode /\ [][NextRefCode]_vars

-----------------------------------------------------------------------------
(* delete_user_and_relations (db/dal/user_dal.py).                         *)

\* Rows of the dependent tables and of message_logs in a database the call
\* can start from.
MaxRows == 3

\* the tables cleaned by user_id, in the order of the delete statements
DependentTables ==
    <<"Payment", "Subscription", "PromoCodeActivation", "UserPaymentMethod", "UserBilling",
      "AdAttribution">>

\* A nullable user reference is the empty set or the set of one user id.
NullableUser(ids) == {{}} \cup {{u} : u \in ids}

RECURSIVE SubsetsUpTo(_, _)
SubsetsUpTo(U, k) ==
    IF k = 0 THEN {{}}
    ELSE LET P == SubsetsUpTo(U, k - 1) IN P \cup {r \cup {x} : r \in P, x \in U}

\* users rows over the ids: nobody is their own referrer, and the foreign
\* key keeps referred_by_id among the stored users
UserTables(ids) ==
    { {[user_id |-> u, referred_by_id |-> f[u]] : u \in ids} :
        f \in {g \in [ids -> NullableUser(ids)] : \A u \in ids : g[u] # {u}} }

DependentRows(ids) ==
    {[table |-> DependentTables[i], user_id |-> u] : i \in DOMAIN DependentTables, u \in ids}

MessageLogRows(ids) ==
    {[user_id |-> a, target_user_id |-> b] : a \in NullableUser(ids), b \in NullableUser(ids)}

StoredUserIds(db) == {r.user_id : r \in db.users}

\* update(User).where(User.referred_by_id == user_id).values(referred_by_id=None)
ClearReferredBy(db, user_id) ==
    [db EXCEPT !.users = {[r EXCEPT !.referred_by_id = IF @ = {user_id} THEN {} ELSE @] : r \in @}]

\* the mutant of DeleteMessageLog: only the rows the user wrote
DeleteMessageLogOfUser(db, user_id) ==
    [db EXCEPT !.logs = {l \in @ : l.user_id # {user_id}}]

\* delete(MessageLog).where(or_(user_id == user_id, target_user_id == user_id))
DeleteMessageLog(db, user_id) ==
    [db EXCEPT !.logs = {l \in @ : ~(l.user_id = {user_id} \/ l.target_user_id = {user_id})}]

\* delete(<table>).where(<table>.user_id == user_id)
DeleteDependent(db, table, user_id) ==
    [db EXCEPT !.owned = {r \in @ : ~(r.table = table /\ r.user_id = user_id)}]

\* session.delete(user); session.flush()
DeleteUserRow(db, user_id) ==
    [db EXCEPT !.users = {r \in @ : r.user_id # user_id}]

\* The n-th statement after the lookup of the user.
DeleteStatement(db, user_id, n) ==
    IF n = 1 THEN ClearReferredBy(db, user_id)
    ELSE IF n = 2 THEN DeleteMessageLog(db, user_id)
    ELSE IF n <= 2 + Len(DependentTables) THEN DeleteDependent(db, DependentTables[n - 2], user_id)
    ELSE DeleteUserRow(db, user_id)

DeleteStatements == 3 + Len(DependentTables)

RECURSIVE ExecutedStatements(_, _, _)
ExecutedStatements(db, user_id, n) ==
    IF n = 0 THEN db
    ELSE DeleteStatement(ExecutedStatements(db, user_id, n - 1), user_id, n)

NoDelete == [user_id |-> 0, result |-> "", nulled |-> 0, logs_deleted |-> 0]

InitRelations ==
    /\ \E ids \in SUBSET TelegramUsers :
         \E us \in UserTables(ids), rs \in SubsetsUpTo(DependentRows(ids), MaxRows) :
           \E ls \in SubsetsUpTo(MessageLogRows(ids), MaxRows - Cardinality(rs)) :
             relations = [db |-> [users |-> us, owned |-> rs, logs |-> ls], last |-> NoDelete]
    /\ InitPaymentsIdle
    /\ autorenew = NULL /\ gate = NULL /\ userdb = NULL
    /\ refcode = NULL /\ clients = NULL /\ sig = NULL
    /\ lknpd = NULL /\ refdb = NULL

relationsIdle == <<paymentVars, receiptVars, autorenew, gate, userdb, refcode, clients, sig>>

\* One call in the caller's session.  readOk: get_user_by_id did not raise;
\* completed: the statements executed before one raised, all of them when
\* none did.  nulled and logs_deleted are the row counts of the first two
\* statements.
delete_user_and_relations(user_id, readOk, completed) ==
    /\ LET db == relations.db
           done == [user_id |-> user_id, result |-> "raised",
                    nulled |-> Cardinality({r \in db.users : r.referred_by_id = {user_id}}),
                    logs_deleted |-> Cardinality(db.logs \ DeleteMessageLog(db, user_id).logs)]
       IN IF ~readOk
          THEN relations' = [relations EXCEPT !.last = [NoDelete EXCEPT !.user_id = user_id,
                                                                        !.result = "raised"]]
          ELSE IF user_id \notin StoredUserIds(db)
          THEN relations' = [relations EXCEPT !.last = [NoDelete EXCEPT !.user_id = user_id,
                                                                        !.result = "False"]]
          ELSE relations' =
                 [db |-> ExecutedStatements(db, user_id, completed),
                  last |-> [done EXCEPT
                              !.result = IF completed = DeleteStatements THEN "True" ELSE "raised",
                              !.nulled = IF completed >= 1 THEN @ ELSE 0,
                              !.logs_deleted = IF completed >= 2 THEN @ ELSE 0]]
    /\ UNCHANGED relationsIdle

NextRelations ==
    \E user_id \in TelegramUsers, readOk \in BOOLEAN, completed \in 0..DeleteStatements :
        delete_user_and_relations(user_id, readOk, completed)

RelationsSpec == InitRelations /\ [][NextRelations]_vars

-----------------------------------------------------------------------------
(* create_user (db/dal/user_dal.py): concurrent calls for one user_id, each *)
(* in the session, and so the transaction, of its caller.                   *)

\* The concurrent calls; each passes its own username.
Callers == {"a", "b", "c"}

\* Strings as sequences of characters.
UpperChar(ch) ==
    CASE ch = "a" -> "A"
      [] ch = "b" -> "B"
      [] OTHER -> ch

RECURSIVE Strip(_)
Strip(str) ==
    IF str = <<>> THEN str
    ELSE IF Head(str) = " " THEN Strip(Tail(str))
    ELSE IF str[Len(str)] = " " THEN Strip(SubSeq(str, 1, Len(str) - 1))
    ELSE str

\* referral_code.strip().upper()
StripUpper(str) == [i \in DOMAIN Strip(str) |-> UpperChar(Strip(str)[i])]

\* referral_code values a caller passes: none, and codes that need and do
\* not need normalising
SuppliedCodes == {<<>>, <<" ", "a", "b", "1", " ">>, <<"A", "B", "1">>}

\* what generate_unique_referral_code returns
GeneratedCodes == {<<"Q", "7">>, <<"Z", "2">>}

NoUser == [user_id |-> 0, username |-> "", referral_code |-> <<>>]

IdleCall == [pc |-> "idle", data |-> NoUser, inserted |-> FALSE, created |-> FALSE,
             user |-> NoUser]

\* users: the committed rows of the users table with this user_id (the
\* primary key allows one); a call's uncommitted row is its data while
\* inserted is TRUE and its transaction is open.
InitUserDb ==
    /\ userdb = [users |-> {}, calls |-> [c \in Callers |-> IdleCall]]
    /\ InitPaymentsIdle
    /\ autorenew = NULL /\ gate = NULL /\ refcode = NULL
    /\ relations = NULL /\ clients = NULL /\ sig = NULL
    /\ lknpd = NULL /\ refdb = NULL

userDbIdle == <<paymentVars, receiptVars, autorenew, gate, refcode, relations, clients, sig>>

TransactionOpen(call) == call.pc \in {"insert", "select", "returned"}

\* the mutant of UncommittedConflict: an insert never meets another
\* transaction's uncommitted row
NoUncommittedConflict(db, c) == FALSE

\* Another open transaction has inserted a row with this user_id: the
\* INSERT waits until that transaction ends.
UncommittedConflict(db, c) ==
    \E d \in Callers \ {c} : TransactionOpen(db.calls[d]) /\ db.calls[d].inserted

\* The start of the call up to the INSERT: user_data with its referral_code
\* generated or normalised.
CreateUserBegin(c, supplied, generated) ==
    /\ userdb.calls[c].pc = "idle"
    /\ userdb' = [userdb EXCEPT !.calls[c] =
                    [@ EXCEPT !.pc = "insert",
                              !.data = [user_id |-> BuyerId, username |-> c,
                                        referral_code |-> IF supplied = <<>> THEN generated
                                                          ELSE StripUpper(supplied)]]]
    /\ UNCHANGED userDbIdle

\* INSERT ... ON CONFLICT (user_id) DO NOTHING RETURNING user_id
CreateUserInsert(c, dbOk) ==
    /\ userdb.calls[c].pc = "insert"
    /\ IF ~dbOk
       THEN userdb' = [userdb EXCEPT !.calls[c] = [@ EXCEPT !.pc = "failed"]]
       ELSE /\ ~UncommittedConflict(userdb, c)
            /\ userdb' = [userdb EXCEPT !.calls[c] =
                            [@ EXCEPT !.pc = "select",
                                      !.inserted = userdb.users = {},
                                      !.created = userdb.users = {}]]
    /\ UNCHANGED userDbIdle

\* get_user_by_id in the same transaction, and the return
CreateUserSelect(c, dbOk) ==
    /\ userdb.calls[c].pc = "select"
    /\ LET call == userdb.calls[c]
           visible == IF call.inserted THEN {call.data} ELSE userdb.users
       IN IF ~dbOk
          THEN userdb' = [userdb EXCEPT !.calls[c] = [@ EXCEPT !.pc = "failed"]]
          ELSE userdb' = [userdb EXCEPT !.calls[c] =
                            [@ EXCEPT !.pc = "returned",
                                      !.user = IF visible = {} THEN NoUser
                                               ELSE CHOOSE r \in visible : TRUE]]
    /\ UNCHANGED userDbIdle

\* The caller commits its session after the call returned.
CallerCommits(c) ==
    /\ userdb.calls[c].pc = "returned"
    /\ userdb' = [userdb EXCEPT
                    !.users = IF userdb.calls[c].inserted THEN @ \cup {userdb.calls[c].data} ELSE @,
                    !.calls[c] = [@ EXCEPT !.pc = "committed"]]
    /\ UNCHANGED userDbIdle

\* The caller rolls its session back: something after the call raised.
CallerRollsBack(c) ==
    /\ userdb.calls[c].pc = "returned"
    /\ userdb' = [userdb EXCEPT !.calls[c] = [@ EXCEPT !.pc = "rolled_back"]]
    /\ UNCHANGED userDbIdle

NextUserDb ==
    \/ \E c \in Callers, supplied \in SuppliedCodes, generated \in GeneratedCodes :
          CreateUserBegin(c, supplied, generated)
    \/ \E c \in Callers, dbOk \in BOOLEAN : CreateUserInsert(c, dbOk)
    \/ \E c \in Callers, dbOk \in BOOLEAN : CreateUserSelect(c, dbOk)
    \/ \E c \in Callers : CallerCommits(c)
    \/ \E c \in Callers : CallerRollsBack(c)

UserDbSpec == InitUserDb /\ [][NextUserDb]_vars

-----------------------------------------------------------------------------
(* Properties.                                                             *)

\* C1: for every payment, over any sequence of webhook deliveries, at most
\* one activate_subscription call is committed.
C1_AtMostOneCommittedActivation ==
    \A p \in PaymentIds : grants[p] <= 1

\* C2: of two concurrent handlers that both read the same row as pending for
\* a success event, the one that commits second does not commit an
\* activation.
C2_RaceLoserDoesNotGrant ==
    \A h \in Handlers :
        ~(wh[h].kind = "success" /\ wh[h].lostRace /\ wh[h].committed /\ wh[h].activated)

\* C3: a SeverPay success event for a row that is already succeeded commits
\* no further activation (it calls neither activate_subscription nor the
\* referral bonus, so there is none to commit).
C3_SeverPayReplayIsNoOp ==
    \A h \in Handlers :
        (wh[h].pc = "done" /\ wh[h].prov = "severpay" /\ wh[h].kind = "success"
            /\ wh[h].readStatus = "succeeded")
        => ~(wh[h].committed /\ wh[h].activated)

\* C4: an authenticated Platega CONFIRMED event for a row that is already
\* succeeded is answered 200 "ok" at once, with no database write, no
\* activation, no referral bonus and no notification.
C4_PlategaReplayIsNoOp ==
    \A h \in Handlers :
        (wh[h].pc # "idle" /\ wh[h].prov = "platega" /\ wh[h].kind = "success"
            /\ wh[h].readStatus = "succeeded")
        => /\ wh[h].pc = "done"
           /\ wh[h].resp = Resp(200, "ok")
           /\ ~wh[h].dbWrite /\ ~wh[h].committed
           /\ ~wh[h].activated /\ ~wh[h].bonus
           /\ ~wh[h].userMsg /\ ~wh[h].adminMsg

C4_Witness ==
    \E h \in Handlers :
        /\ wh[h].pc = "done" /\ wh[h].prov = "platega" /\ wh[h].kind = "success"
        /\ wh[h].readStatus = "succeeded" /\ wh[h].resp = Resp(200, "ok")
        /\ grants[wh[h].pay] = 1

\* C5: a row whose status is failed, failed_creation or canceled has no
\* committed activation (an activation that was never invoked was never
\* committed).
C5_NoActivationForFailedRow ==
    \A p \in DOMAIN payments :
        payments[p].status \in FailureTerminals => grants[p] = 0

\* C6: a row whose committed status is succeeded keeps that status in every
\* step.
C6_SucceededIsAbsorbing ==
    [][\A p \in DOMAIN payments :
          payments[p].status = "succeeded" => payments'[p].status = "succeeded"]_vars

\* C7: no step of a webhook handler changes a row whose committed status is
\* failed, failed_creation or canceled to succeeded or to a pending status.
C7_FailureTerminalsAreAbsorbing ==
    [][\A p \in DOMAIN payments :
          (ini' = ini /\ payments[p].status \in FailureTerminals)
          => payments'[p].status \notin ({"succeeded"} \cup PendingStatuses)]_vars

NoEffect(s) ==
    /\ ~s.dbRead /\ ~s.dbWrite /\ ~s.committed
    /\ ~s.activated /\ ~s.bonus /\ ~s.userMsg /\ ~s.adminMsg

\* C8: a webhook with a missing or wrong signature (SeverPay) or
\* missing or wrong X-MerchantId / X-Secret (Platega) is answered 403 and
\* reads and changes nothing.
C8_ForgedIsAnswered403 ==
    \A h \in Handlers :
        (wh[h].pc = "done" /\ wh[h].forged) => (wh[h].resp.code = 403 /\ NoEffect(wh[h]))

\* C9: the committed status of a row is succeeded exactly if an activation
\* for it has been committed.
C9_SucceededIffActivationCommitted ==
    \A p \in DOMAIN payments : payments[p].status = "succeeded" <=> grants[p] > 0

\* C10: a delivery whose success transaction has committed is answered 2xx,
\* whatever happens in the steps after the commit.
C10_CommittedSuccessIsAnswered2xx ==
    \A h \in Handlers :
        (wh[h].pc = "done" /\ wh[h].kind = "success" /\ wh[h].committed) => Is2xx(wh[h].resp)

\* C11: when the row was inserted and the create call failed, the handler
\* ends with the committed status failed_creation and the gateway-error
\* text.
C11_FailedCreationIsMarked ==
    [][\A i \in DOMAIN ini :
          (ini[i].pc = "failed_creation" /\ ~ini[i].ok /\ ini'[i].pc = "done")
          => /\ payments'[ini[i].pay].status = "failed_creation"
             /\ ini'[i].outcome = "error_payment_gateway"]_vars

\* the outcomes of the provider call for which the create call returns
\* (True, data): HTTP 200 with a JSON body, for SeverPay a JSON object with a
\* true status field
ReturnsData(i, c) ==
    /\ c.kind = "response" /\ c.http = 200 /\ c.json # "invalid"
    /\ (i = "severpay" => (c.json = "object" /\ c.status))

\* C12: create_payment and create_transaction raise for no outcome of the
\* provider call; they return (True, data) exactly for HTTP 200 (for
\* SeverPay with a true status field) and (False, ...) for every other
\* outcome and for an unconfigured service.
C12_CreateNeverRaises ==
    /\ \A o \in SeverPayCalls, c \in BOOLEAN :
          /\ ~create_payment(c, o).raised
          /\ create_payment(c, o).ok <=> (c /\ ReturnsData("severpay", CallOf(o)))
    /\ \A o \in PlategaCalls, c \in BOOLEAN :
          /\ ~create_transaction(c, o).raised
          /\ create_transaction(c, o).ok <=> (c /\ ReturnsData("platega", CallOf(o)))
    /\ \A i \in {"severpay", "platega"} :
          /\ ini[i].outcome # "exception_in_create_call"
          /\ ini[i].pc = "store" => (ini[i].ok <=> ReturnsData(i, ini[i].call))

C12_Witness ==
    /\ ini["severpay"].pc = "store"
    /\ ini["severpay"].call.kind = "timeout"
    /\ ~ini["severpay"].ok

\* the quantity an activate_subscription call carries: months in
\* subscription sale mode, traffic_gb in traffic sale mode
Quantity(call) == IF call.sale_mode = "traffic" THEN call.traffic_gb ELSE call.months

SeverPaySuccessNoRaise(h) ==
    /\ wh[h].pc = "done" /\ wh[h].prov = "severpay" /\ wh[h].kind = "success"
    /\ wh[h].readStatus = "pending_severpay" /\ wh[h].exc = "none"

SeverPaySuccessOutcome(h) ==
    /\ payments[wh[h].pay].status = "succeeded"
    /\ wh[h].committed /\ wh[h].activated
    /\ wh[h].act.user_id = payments[wh[h].pay].user_id
    /\ wh[h].act.payment_id = wh[h].pay
    /\ wh[h].act.amount = payments[wh[h].pay].amount
    /\ wh[h].act.provider = "severpay"
    /\ wh[h].resp = Resp(200, "status_true")

\* C13 as stated: a SeverPay success event for a pending_severpay row, when
\* no step raises, commits succeeded, makes its one activate_subscription
\* call with the row's user_id, payment_id, amount and stored
\* subscription_duration_months and provider "severpay", and answers 200.
C13_SeverPaySuccessCarriesStoredMonths ==
    \A h \in Handlers :
        SeverPaySuccessNoRaise(h)
        => /\ SeverPaySuccessOutcome(h)
           /\ Quantity(wh[h].act) = payments[wh[h].pay].subscription_duration_months

\* C13 as amended: the quantity of the call is the stored
\* subscription_duration_months, or 1 when the stored value is zero; it is
\* passed as months in subscription sale mode and as traffic_gb, with
\* months = 0, in traffic sale mode.
C13_SeverPaySuccessCarriesStoredMonthsOrOne ==
    \A h \in Handlers :
        SeverPaySuccessNoRaise(h)
        => /\ SeverPaySuccessOutcome(h)
           /\ Quantity(wh[h].act) =
                 IF payments[wh[h].pay].subscription_duration_months = 0 THEN 1
                 ELSE payments[wh[h].pay].subscription_duration_months
           /\ wh[h].act.sale_mode = "traffic" => wh[h].act.months = 0

C13_Witness ==
    \E h \in Handlers :
        /\ SeverPaySuccessNoRaise(h)
        /\ payments[wh[h].pay].subscription_duration_months = 0
        /\ Quantity(wh[h].act) = 1

\* C14: a failure event (SeverPay fail/decline, Platega CANCELED, CANCELLED,
\* CHARGEBACKED) for a pending row whose status write commits is answered
\* 200 (Platega: "ok_canceled"), leaves the row failed (Platega: canceled),
\* attempts the "payment_failed" message and calls neither
\* activate_subscription nor the referral bonus.
C14_FailureEventIsAcknowledged ==
    \A h \in Handlers :
        (wh[h].pc = "done" /\ wh[h].kind = "failure" /\ wh[h].committed
            /\ wh[h].readStatus \in PendingStatuses)
        => /\ payments[wh[h].pay].status = IF wh[h].prov = "platega" THEN "canceled" ELSE "failed"
           /\ wh[h].resp = IF wh[h].prov = "platega" THEN Resp(200, "ok_canceled")
                           ELSE Resp(200, "status_true")
           /\ wh[h].userMsg
           /\ ~wh[h].activated /\ ~wh[h].bonus

\* C15: a SeverPay process/new event leaves the status of a SeverPay row as
\* it is.
C15_PendingEventKeepsStatus ==
    [][\A h \in Handlers :
          (wh[h].pc = "transact" /\ wh[h].kind = "pending" /\ wh'[h].pc = "done"
              /\ payments[wh[h].pay].provider = "severpay")
          => payments'[wh[h].pay].status = payments[wh[h].pay].status]_vars

PlategaConfirmed(h) ==
    /\ wh[h].pc \in {"transact", "done"} /\ wh[h].prov = "platega" /\ wh[h].kind = "success"
    /\ wh[h].readStatus = "pending_platega"

RoundedAmountsDiffer(h) ==
    /\ wh[h].amountIn.kind = "num"
    /\ Quantize(wh[h].amountIn.mills) # Quantize(payments[wh[h].pay].amount)

\* a mismatching, absent or unparsable amount does not block the grant, and
\* the amounts passed on are the stored one
AmountDoesNotBlock(h) ==
    /\ (wh[h].pc = "done" /\ wh[h].exc \in {"none", "notify"})
          => /\ wh[h].committed /\ wh[h].activated
             /\ payments[wh[h].pay].status = "succeeded"
             /\ wh[h].resp = Resp(200, "ok")
    /\ wh[h].activated => wh[h].act.amount = payments[wh[h].pay].amount
    /\ wh[h].adminMsg => wh[h].adminAmount = payments[wh[h].pay].amount

C18_ResponseClassMapping ==
    \A h \in Handlers :
        (wh[h].pc = "done" /\ configured[wh[h].prov])
        => /\ wh[h].body \in {"notjson", "notdict"}
                 => (wh[h].resp.code >= 400 /\ wh[h].resp.code < 500)
           /\ wh[h].exc = "downstream" => wh[h].resp.code >= 500

\* C19: the committed status of every row is the pending status of the
\* row's provider, succeeded, failed, failed_creation or canceled.
C19_StatusDomain ==
    \A p \in DOMAIN payments :
        payments[p].status \in
            {PendingStatus(payments[p].provider), "succeeded", "failed", "failed_creation", "canceled"}

\* C20: while the provider's create API is being called the pending row is
\* inserted and committed and the session holds no uncommitted write; the
\* API is called only for an inserted row, and not at all when the insert
\* or its commit failed.
C20_CreateCalledAfterCommittedInsert ==
    \A i \in DOMAIN ini :
        /\ ini[i].pc = "calling"
              => /\ ini[i].pay \in DOMAIN payments
                 /\ payments[ini[i].pay].status = PendingStatus(i)
                 /\ ~ini[i].uncommitted
        /\ ini[i].called => (ini[i].pay \in DOMAIN payments /\ ~ini[i].uncommitted)
        /\ ini[i].outcome = "error_creating_payment_record"
              => (~ini[i].called /\ DOMAIN payments = {})

C20_Witness ==
    \E i \in DOMAIN ini :
        /\ ini[i].pc = "calling" /\ ini[i].called
        /\ payments[ini[i].pay].status = PendingStatus(i)

\* C26: SeverPay record lookup: when data.order_id is an integer or an
\* all-digit string and a record with that payment_id exists, that record
\* is the one reconciled whatever data.id/data.uid is; the record is found
\* by its provider_payment_id only when order_id is not numeric or matches
\* no record.
C26_NumericOrderIdWins ==
    [][\A h \in Handlers, req \in LookupRequests :
         (SeverPayWebhookBegin(h, req) /\ wh'[h].lookup = "found") =>
            LET id == ParseOrderId(req.order_id)
                p == wh'[h].pay
            IN /\ id \in DOMAIN payments => p = id
               /\ p # id => /\ id \notin DOMAIN payments
                            /\ req.id # ""
                            /\ payments[p].provider_payment_id = req.id]_vars

\* A delivery whose order id names record 1 and whose provider id is the one
\* stored on record 2 is being reconciled against record 1.
C26_Witness ==
    \E h \in Handlers :
        /\ wh[h].pc = "transact" /\ wh[h].lookup = "found"
        /\ wh[h].pay = 1 /\ wh[h].txid = "tx2"
        /\ 2 \in DOMAIN payments /\ payments[2].provider_payment_id = "tx2"

\* The quantity the claims expect: the stored value, 1 when it is zero.
ExpectedQuantity(p) ==
    IF payments[p].subscription_duration_months = 0 THEN 1
    ELSE payments[p].subscription_duration_months

\* C27: quantity interpretation: when a success webhook is reconciled, the
\* stored subscription_duration_months (1 if null or zero) is passed as
\* months with traffic_gb = None in subscription mode and as traffic_gb
\* with months = 0 in traffic mode, and the one sale mode read by the
\* webhook decides the activation, the referral bonus and both
\* notifications.
C27_QuantityFollowsSaleMode ==
    \A h \in Handlers :
        LET s == wh[h]
            q == ExpectedQuantity(s.pay)
        IN s.act # NoCall =>
             /\ s.act.sale_mode \in {"subscription", "traffic"}
             /\ s.act.sale_mode = "subscription" => s.act.months = q /\ s.act.traffic_gb = 0
             /\ s.act.sale_mode = "traffic" => s.act.months = 0 /\ s.act.traffic_gb = q
             /\ s.bonus => s.act.sale_mode = "subscription"
             /\ s.committed => (s.bonus <=> s.act.sale_mode = "subscription")
             /\ s.userMode # "" => s.userMode = s.act.sale_mode
             /\ s.adminCall # NoQuantity =>
                  s.adminCall = IF s.act.sale_mode = "traffic"
                                THEN [months |-> 0, traffic_gb |-> q]
                                ELSE [months |-> q, traffic_gb |-> 0]

\* A Platega record that stores 0 was reconciled in traffic mode and both
\* notifications were sent.
C27_Witness ==
    \E h \in Handlers :
        /\ wh[h].committed /\ wh[h].act # NoCall /\ wh[h].adminMsg /\ wh[h].userMsg
        /\ wh[h].act.sale_mode = "traffic"
        /\ payments[wh[h].pay].subscription_duration_months = 0
        /\ wh[h].prov = "platega"

C30_SignatureRoundTrip ==
    sig.pc = "validated" =>
        /\ (sig.tamper = "none" /\ sig.token # "") => sig.result = "accept"
        /\ sig.tamper # "none" => sig.result = "reject"
        /\ sig.token = "" => sig.result = "reject"

OpenSessions(c, svc) ==
    {id \in DOMAIN c.sess : c.sess[id].owner = svc /\ ~c.sess[id].closed}

\* C29: _get_session never returns a closed session and returns the same
\* session for as long as it is open, so each service has at most one open
\* session; close() does nothing to a closed or missing session and never
\* touches the other service's session; after close(), the next
\* _get_session creates a fresh open session.
C29_SessionLifecycle ==
    /\ [](\A svc \in Services : Cardinality(OpenSessions(clients, svc)) <= 1)
    /\ [][LET l == clients'.last
          IN /\ l.op = "get" =>
                  /\ ~l.closedAtReturn
                  /\ l.prevOpen => l.id = l.prev /\ clients'.sess = clients.sess
                  /\ ~l.prevOpen => /\ l.id \notin DOMAIN clients.sess
                                    /\ clients'.sess[l.id] = [owner |-> l.svc, closed |-> FALSE]
             /\ l.op = "close_noop" =>
                  clients'.sess = clients.sess /\ clients'.ref = clients.ref
             /\ l.op \in {"close_begin", "close_end"} =>
                  /\ clients'.ref = clients.ref
                  /\ \A id \in DOMAIN clients.sess :
                        id # l.id => clients'.sess[id] = clients.sess[id]
                  /\ clients.sess[l.id].owner = l.svc]_vars

\* A service's session was closed by close() and the next _get_session made
\* a new one while the other service's session stayed open.
C29_Witness ==
    /\ clients.last.op = "get" /\ clients.last.prev # 0 /\ ~clients.last.prevOpen
    /\ clients.sess[clients.last.prev].closed
    /\ \E svc \in Services : svc # clients.last.svc /\ IsOpen(clients, clients.ref[svc])

\* C21: auto_renew_enabled of a subscription changes from false to true only
\* by a confirm callback of the subscription's owner, for a subscription
\* whose provider is yookassa, while the YooKassa autopayments flag is
\* active and the owner has a saved payment method; and a confirm callback
\* that fails only for the missing saved method changes nothing and shows
\* the alert autorenew_enable_requires_card.
C21_AutoRenewGate ==
    [][/\ \A i \in DOMAIN autorenew.subs :
            (~autorenew.subs[i].auto_renew_enabled /\ autorenew'.subs[i].auto_renew_enabled)
            => /\ autorenew'.last.handler = "confirm"
               /\ autorenew'.last.sub_id = i
               /\ autorenew'.last.caller = autorenew.subs[i].user_id
               /\ autorenew.subs[i].provider = "yookassa"
               /\ autorenew.flag
               /\ autorenew'.last.caller \in autorenew.cards
       /\ LET l == autorenew'.last
          IN (/\ l.handler = "confirm" /\ l.parsed /\ l.enable
              /\ l.sub_id \in DOMAIN autorenew.subs
              /\ autorenew.subs[l.sub_id].user_id = l.caller
              /\ autorenew.subs[l.sub_id].provider = "yookassa"
              /\ autorenew.flag
              /\ l.caller \notin autorenew.cards)
             => (l.answer = "autorenew_enable_requires_card" /\ autorenew'.subs = autorenew.subs)]_vars

\* The update is one the middleware always lets through.
GateExempt(g) ==
    \/ g.update.kind = "message" /\ StartsWithStart(g.update.text)
    \/ g.update.kind = "callback" /\ g.update.data = "channel_subscription:verify"

\* The user's row says the check for the required channel has not passed.
NotVerified(g) ==
    /\ g.row.exists
    /\ \/ ~g.row.channel_subscription_verified
       \/ g.row.channel_subscription_verified_for # g.required

C24_ReferralCodeWithin25Checks ==
    /\ [](/\ refcode.checks <= 25
          /\ refcode.pc = "loop" => refcode.checks < 25
          /\ refcode.pc = "returned" => refcode.collisions = refcode.checks - 1
          /\ refcode.pc = "raised" <=> refcode.collisions = 25)
    /\ [][/\ (refcode.pc = "loop" /\ refcode'.pc = "returned")
               => /\ refcode'.result \in ReferralCodes \ refcode.taken
                  /\ refcode'.checks = refcode.checks + 1
          /\ (refcode.pc = "loop" /\ refcode'.checks = refcode.checks + 1
                                  /\ refcode'.pc # "returned")
               => /\ refcode.taken # {}
                  /\ refcode'.collisions = refcode.collisions + 1]_vars

\* The 25th candidate was free after 24 that existed.
C24_Witness ==
    refcode.pc = "returned" /\ refcode.checks = 25 /\ refcode.collisions = 24

\* No row of the database refers to the user.
NoReferenceTo(db, u) ==
    /\ \A r \in db.users : r.user_id # u /\ r.referred_by_id # {u}
    /\ \A r \in db.owned : r.user_id # u
    /\ \A l \in db.logs : l.user_id # {u} /\ l.target_user_id # {u}

\* C25 as stated: after delete_user_and_relations returns True nothing
\* refers to the user and the rows of all other users are as they were;
\* after it returns False there was no such user and nothing changed.
C25_NoDanglingAndOthersUnchanged ==
    [][LET u == relations'.last.user_id
           old == relations.db
           new == relations'.db
       IN /\ relations'.last.result = "True"
               => /\ u \in StoredUserIds(old)
                  /\ NoReferenceTo(new, u)
                  /\ new.users = {r \in old.users : r.user_id # u}
                  /\ new.owned = {r \in old.owned : r.user_id # u}
                  /\ new.logs = {l \in old.logs : l.user_id # {u}}
          /\ relations'.last.result = "False"
               => u \notin StoredUserIds(old) /\ new = old]_vars

\* C25: after delete_user_and_relations returns True nothing refers to the
\* user, and the rows of all other users are as they were except that a
\* referred_by_id naming the user is NULL and the message_logs rows whose
\* target_user_id is the user are deleted; after it returns False there was
\* no such user and nothing changed.
C25_NoDanglingAndOthersKeptButForReferences ==
    [][LET u == relations'.last.user_id
           old == relations.db
           new == relations'.db
       IN /\ relations'.last.result = "True"
               => /\ u \in StoredUserIds(old)
                  /\ NoReferenceTo(new, u)
                  /\ new.users = {[r EXCEPT !.referred_by_id = IF @ = {u} THEN {} ELSE @] :
                                    r \in {x \in old.users : x.user_id # u}}
                  /\ new.owned = {r \in old.owned : r.user_id # u}
                  /\ new.logs = {l \in old.logs : l.user_id # {u} /\ l.target_user_id # {u}}
          /\ relations'.last.result = "False"
               => u \notin StoredUserIds(old) /\ new = old]_vars

\* A user who had referred another user and was the target of a logged
\* message was deleted, and the other user keeps a dependent row.
C25_Witness ==
    /\ relations.last.result = "True"
    /\ relations.last.nulled > 0
    /\ relations.last.logs_deleted > 0
    /\ relations.db.owned # {}
    /\ relations.db.logs # {}

\* The calls that returned, and those of them whose transaction was not
\* rolled back.
ReturnedCalls == {c \in Callers : userdb.calls[c].pc \in {"returned", "committed", "rolled_back"}}

KeptCalls == {c \in Callers : userdb.calls[c].pc \in {"returned", "committed"}}

\* Among the calls, exactly one returned created=True, and every call
\* returned that call's row.
OneCreatorAmong(calls) ==
    calls # {} =>
        \E c \in calls :
            /\ userdb.calls[c].created
            /\ \A d \in calls \ {c} : ~userdb.calls[d].created
            /\ \A d \in calls : userdb.calls[d].user = userdb.calls[c].data

\* C23 as stated: of the concurrent create_user calls for one user_id that
\* have returned, exactly one returned created=True, and all returned the
\* row that call inserted; the table never holds two rows.
C23_ExactlyOneCreated ==
    /\ Cardinality(userdb.users) <= 1
    /\ OneCreatorAmong(ReturnedCalls)

\* C23: of the concurrent create_user calls for one user_id that have
\* returned and whose transaction was not rolled back, exactly one returned
\* created=True, and all returned the row that call inserted; the table
\* never holds two rows.
C23_ExactlyOneCreatedAmongKept ==
    /\ Cardinality(userdb.users) <= 1
    /\ OneCreatorAmong(KeptCalls)
    /\ \A c \in ReturnedCalls : userdb.calls[c].user # NoUser

\* One call created the user and was rolled back, a second then created
\* the user with a normalised referral code and committed, and a third
\* returned the second call's row with created=False.
C23_Witness ==
    \E a, b, c \in Callers :
        /\ userdb.calls[a].pc = "rolled_back" /\ userdb.calls[a].created
        /\ userdb.calls[b].pc = "committed" /\ userdb.calls[b].created
        /\ userdb.calls[b].data.referral_code = <<"A", "B", "1">>
        /\ userdb.calls[c].pc = "returned" /\ ~userdb.calls[c].created
        /\ userdb.calls[c].user = userdb.calls[b].data

\* C32: the write with which an initiation handler stores the provider's
\* payment id leaves a status that a webhook has committed (succeeded,
\* failed, canceled) as it is.
C32_StoreKeepsCommittedStatus ==
    [][\A i \in DOMAIN ini :
          (ini[i].pc = "store" /\ ini'[i].pc # "store"
              /\ payments[ini[i].pay].status \in {"succeeded", "failed", "canceled"})
          => payments'[ini[i].pay].status = payments[ini[i].pay].status]_vars

\* C33: when the Platega initiation handler has shown the pay URL, the
\* committed provider_payment_id of its record is the transaction id the
\* provider returned, the only key by which the webhook route looks the
\* record up.
C33_PlategaLinkShownOnlyWithStoredId ==
    (ini["platega"].pc = "done" /\ ini["platega"].outcome = "payment_link_message")
        => payments[ini["platega"].pay].provider_payment_id = TxOf(ini["platega"].pay)

\* A delivery to the configured SeverPay route with a JSON object and a
\* valid signature has been answered.
SeverPaySignedDone(h) ==
    /\ wh[h].pc = "done" /\ wh[h].prov = "severpay" /\ configured["severpay"]
    /\ wh[h].body = "dict" /\ ~wh[h].forged

\* Answered 200 status true with no database access, activation, bonus or
\* notification.
AcknowledgedUntouched(h) ==
    /\ wh[h].resp = Resp(200, "status_true")
    /\ ~wh[h].dbRead /\ ~wh[h].dbWrite /\ ~wh[h].committed
    /\ ~wh[h].activated /\ ~wh[h].bonus /\ ~wh[h].userMsg /\ ~wh[h].adminMsg

\* A payin event with a status the route does not know, for a record the
\* lookup found, is answered 200 and no table changes.
UnknownStatusIsAcknowledged ==
    [][\A h \in Handlers :
          (wh'[h].pc = "done" /\ wh[h].pc # "done" /\ wh'[h].prov = "severpay"
              /\ wh'[h].lookup = "found" /\ wh'[h].kind = "ignored")
          => /\ wh'[h].resp = Resp(200, "status_true")
             /\ payments' = payments /\ grants' = grants /\ bonuses' = bonuses
             /\ ~wh'[h].activated /\ ~wh'[h].userMsg /\ ~wh'[h].adminMsg]_vars

\* C34 as stated: a validly signed SeverPay webhook whose type is not payin
\* or whose data is not an object is answered 200 status true without any
\* database read or write, activation or notification; a payin webhook with
\* an unrecognised status for an existing record is answered 200 and the
\* record stays as it is.
C34_UnsupportedEventIsAcknowledged ==
    /\ [](\A h \in Handlers :
            (SeverPaySignedDone(h) /\ (wh[h].type # "payin" \/ wh[h].data # "object"))
                => AcknowledgedUntouched(h))
    /\ UnknownStatusIsAcknowledged

\* C34: the same for a type that is not payin or a data value that is
\* neither an object nor missing or empty (which is read as an empty
\* object).
C34_UnsupportedEventIsAcknowledgedUnlessDataEmpty ==
    /\ [](\A h \in Handlers :
            (SeverPaySignedDone(h) /\ (wh[h].type # "payin" \/ wh[h].data = "other"))
                => AcknowledgedUntouched(h))
    /\ UnknownStatusIsAcknowledged

\* Two deliveries have been acknowledged: a payin event whose data is a
\* value other than an object, and after it an event with an unknown status
\* for the stored record.
C34_Witness ==
    \E h \in Handlers :
        /\ SeverPaySignedDone(h) /\ wh[h].lookup = "found" /\ wh[h].kind = "ignored"
        /\ wh[h].resp = Resp(200, "status_true")
        /\ delivered >= 2

\* A delivery to the configured Platega route with a JSON object and the
\* right headers, naming a stored record, has been answered and its lookup
\* did not raise.
PlategaAuthenticatedDone(h) ==
    /\ wh[h].pc = "done" /\ wh[h].prov = "platega" /\ configured["platega"]
    /\ wh[h].body = "dict" /\ ~wh[h].forged /\ ~wh[h].orphan /\ wh[h].lookup # "raised"

PlategaHandledStatuses == {"CONFIRMED", "CANCELED", "CANCELLED", "CHARGEBACKED"}

\* Answered 202 status_ignored with no write, activation, bonus or
\* notification.
IgnoredUntouched(h) ==
    /\ wh[h].resp = Resp(202, "status_ignored")
    /\ ~wh[h].dbWrite /\ ~wh[h].committed
    /\ ~wh[h].activated /\ ~wh[h].bonus /\ ~wh[h].userMsg /\ ~wh[h].adminMsg

\* The step that answers 202 changes no table.
IgnoredStepKeepsTables ==
    [][\A h \in Handlers :
          (wh'[h].pc = "done" /\ wh[h].pc # "done" /\ wh'[h].resp = Resp(202, "status_ignored"))
          => payments' = payments /\ grants' = grants /\ bonuses' = bonuses]_vars

\* C35 as stated: an authenticated Platega webhook for an existing record
\* whose status is none of CONFIRMED, CANCELED, CANCELLED, CHARGEBACKED is
\* answered 202 status_ignored; the record stays as it is and nothing is
\* activated or notified.
C35_OtherStatusIsIgnored ==
    /\ [](\A h \in Handlers :
            (PlategaAuthenticatedDone(h) /\ wh[h].status \notin PlategaHandledStatuses)
                => IgnoredUntouched(h))
    /\ IgnoredStepKeepsTables

\* C35: the same for a status that is not empty and, in upper case, none of
\* the four.
C35_OtherNonEmptyStatusIsIgnored ==
    /\ [](\A h \in Handlers :
            (PlategaAuthenticatedDone(h) /\ wh[h].status # ""
                 /\ Upper(wh[h].status) \notin PlategaHandledStatuses)
                => IgnoredUntouched(h))
    /\ IgnoredStepKeepsTables

\* A PENDING event for the stored Platega record has been answered 202.
C35_Witness ==
    \E h \in Handlers :
        /\ PlategaAuthenticatedDone(h) /\ wh[h].status = "PENDING" /\ wh[h].lookup = "found"
        /\ wh[h].resp = Resp(202, "status_ignored")

\* The answer of a route whose service is not configured.
Disabled(provider) ==
    IF provider = "severpay" THEN Resp(503, "severpay_disabled") ELSE Resp(503, "platega_disabled")

\* C36: a provider service that is not configured answers every webhook
\* 503 without a lookup, write, activation or message, whatever the body
\* and the credentials of the request; its create call returns (False,
\* {"message": "service_not_configured"}) whatever the network would
\* answer; and its initiation handler ends with "service unavailable" and
\* no record of that provider is inserted.
C36_UnconfiguredServiceDoesNothing ==
    /\ \A h \in Handlers :
          (wh[h].pc # "idle" /\ ~configured[wh[h].prov])
          => /\ wh[h].pc = "done" /\ wh[h].resp = Disabled(wh[h].prov)
             /\ wh[h].lookup = "" /\ ~wh[h].dbRead /\ ~wh[h].dbWrite /\ ~wh[h].committed
             /\ ~wh[h].activated /\ ~wh[h].bonus /\ ~wh[h].userMsg /\ ~wh[h].adminMsg
    /\ \A o \in SeverPayCalls : create_payment(FALSE, o) = ServiceNotConfigured
    /\ \A o \in PlategaCalls : create_transaction(FALSE, o) = ServiceNotConfigured
    /\ \A i \in DOMAIN ini :
          ~configured[i]
          => /\ ini[i].pay = 0 /\ ~ini[i].called
             /\ ini[i].pc = "done"
                   => ini[i].outcome \in {"payment_service_unavailable", "error_occurred_try_again"}
    /\ \A p \in DOMAIN payments : configured[payments[p].provider]

\* With SeverPay not configured its initiation handler has answered
\* "service unavailable" and a correctly signed success webhook has been
\* answered 503.
C36_Witness ==
    /\ ~configured["severpay"]
    /\ ini["severpay"].pc = "done" /\ ini["severpay"].outcome = "payment_service_unavailable"
    /\ \E h \in Handlers :
          /\ wh[h].pc = "done" /\ wh[h].prov = "severpay"
          /\ wh[h].body = "dict" /\ ~wh[h].forged /\ wh[h].type = "payin"
          /\ wh[h].resp = Resp(503, "severpay_disabled")

-----------------------------------------------------------------------------
(* LKNPD receipts (bot/services/lknpd_service.py, lknpd_client.py).        *)
(* One LknpdService with its LknpdClient, the coroutines that call         *)
(* create_income_receipt or LknpdClient._request on them, and the API at   *)
(* lknpd.nalog.ru.  A coroutine runs without interruption from one await   *)
(* that suspends it (an HTTP exchange, a lock that is held) to the next.   *)
(* A 200 answer of the two auth endpoints is the JSON object the API       *)
(* documents: it carries "token"; "refreshToken" may be missing.           *)

\* the coroutines that use the service concurrently
Tasks == {"t1", "t2"}

NoTask == "nobody"

\* access tokens; NoToken stands for a request without Authorization header
TokenIds == 1 .. (Cardinality(Tasks) + 2)

NoToken == 0

\* httpx.RequestError raised instead of a response
NetErr == 0

\* LknpdClient.__init__: self._token_data = None
NoTokenData == [set |-> FALSE, token |-> NoToken, hasRefresh |-> FALSE]

TokenData(token, hasRefresh) == [set |-> TRUE, token |-> token, hasRefresh |-> hasRefresh]

IdleTask ==
    [kind |-> "", pc |-> "idle", retry_on_401 |-> TRUE, headers |-> NoToken,
     sent |-> 0, first |-> NetErr, refreshed |-> NoToken, authenticated |-> FALSE,
     waited |-> FALSE, overtaken |-> FALSE, result |-> "", status |-> NetErr]

\* LknpdService.__init__ and LknpdClient.__init__
InitLknpd ==
    /\ \E c \in BOOLEAN :
          lknpd = [configured |-> c, token_data |-> NoTokenData,
                   auth_lock |-> NoTask, refresh_lock |-> NoTask,
                   task |-> [t \in Tasks |-> IdleTask],
                   api |-> [stable |-> FALSE, valid |-> {}],
                   loginExpired |-> FALSE]
    /\ InitPaymentsIdle
    /\ autorenew = NULL /\ gate = NULL /\ userdb = NULL /\ refcode = NULL
    /\ relations = NULL /\ clients = NULL /\ sig = NULL /\ refdb = NULL

lknpdIdle == <<paymentVars, autorenew, gate, userdb, refcode, relations, clients, sig, refdb>>

is_never_authenticated(token_data) == FALSE

\* LknpdClient.is_authenticated
is_authenticated(token_data) == token_data.set

_get_no_auth_headers(token_data) == NoToken

\* LknpdClient._get_auth_headers: the token that the Authorization header carries
_get_auth_headers(token_data) ==
    IF ~token_data.set THEN NoToken ELSE token_data.token

\* a token that neither the client nor a request in flight holds
FreshToken(l) ==
    CHOOSE id \in TokenIds :
        /\ id # l.token_data.token
        /\ \A t \in Tasks : id # l.task[t].headers
        /\ \A o \in TokenIds :
              (/\ o # l.token_data.token
               /\ \A t \in Tasks : o # l.task[t].headers) => id <= o

\* the sessions of the API once it has given out token: those whose token
\* the client or a request in flight still holds, and the new one
Sessions(l, token) ==
    (l.api.valid \cap ({l.token_data.token} \cup {l.task[t].headers : t \in Tasks}))
        \cup {token}

\* what the API may answer to POST /v1/auth/lkfl
AuthStatuses(l) == IF l.api.stable THEN {200} ELSE {200, 401, 500, NetErr}

\* what the API may answer to POST /v1/auth/token
RefreshStatuses(l) ==
    IF l.api.stable
    THEN {IF l.token_data.token \in l.api.valid THEN 200 ELSE 401}
    ELSE {200, 401, 500, NetErr}

\* what the API may answer to a request that carries the token in headers
RequestStatuses(l, headers) ==
    IF l.api.stable
    THEN {IF headers \in l.api.valid THEN 200 ELSE 401}
    ELSE {200, 400, 401, 500, NetErr}

\* whether the body of a 200 answer names the receipt
ReceiptNamed(l) == IF l.api.stable THEN {TRUE} ELSE BOOLEAN

\* whether a 200 answer of an auth endpoint carries "refreshToken"
RefreshTokenGiven(l) == IF l.api.stable THEN {TRUE} ELSE BOOLEAN

\* LknpdClient._request, from its first line to the first client.request
SendFirst(l, t) ==
    [l EXCEPT !.task[t].pc = "request",
              !.task[t].headers = _get_auth_headers(l.token_data),
              !.task[t].sent = 1]

\* create_income_receipt and create_income after _request has returned the
\* response (status, named), or raised httpx.RequestError (status = NetErr)
Returned(l, t, status, named, refreshFailed) ==
    LET out == IF l.task[t].kind = "request"
               THEN IF status = NetErr THEN "raised" ELSE "response"
               ELSE IF status = 200 /\ named THEN "receipt" ELSE "none"
    IN [l EXCEPT !.task[t].pc = "idle",
                 !.task[t].result = out,
                 !.task[t].status = status,
                 !.loginExpired =
                     IF l.task[t].kind = "request" THEN @
                     ELSE IF out = "receipt" THEN FALSE
                     ELSE IF status = 401 /\ refreshFailed THEN TRUE
                     ELSE @]

\* LknpdService._ensure_authenticated inside "async with self._auth_lock",
\* and, when the client is authenticated, create_income up to its request
EnsureAuthenticatedLocked(l, t) ==
    IF is_authenticated(l.token_data)
    THEN SendFirst(l, t)
    ELSE [l EXCEPT !.auth_lock = t,
                   !.task[t].pc = "authenticating",
                   !.task[t].authenticated = TRUE]

\* LknpdService.create_income_receipt is called
CreateIncomeReceiptBegin(t) ==
    /\ lknpd.task[t].pc = "idle"
    /\ LET l0 == [lknpd EXCEPT !.task[t] = [IdleTask EXCEPT !.kind = "receipt"]]
       IN lknpd' =
            IF ~l0.configured
            THEN [l0 EXCEPT !.task[t].result = "none"]
            ELSE IF l0.auth_lock # NoTask
            THEN [l0 EXCEPT !.task[t].pc = "wait_auth_lock", !.task[t].waited = TRUE]
            ELSE EnsureAuthenticatedLocked(l0, t)
    /\ UNCHANGED lknpdIdle

\* the caller that waited for _auth_lock gets it
AuthLockAcquired(t) ==
    /\ lknpd.task[t].pc = "wait_auth_lock"
    /\ lknpd.auth_lock = NoTask
    /\ lknpd' = EnsureAuthenticatedLocked(lknpd, t)
    /\ UNCHANGED lknpdIdle

\* LknpdClient.authenticate gets its answer; on success create_income goes
\* on to its request
AuthenticateResponse(t, status, hasRefresh) ==
    /\ lknpd.task[t].pc = "authenticating"
    /\ status \in AuthStatuses(lknpd)
    /\ hasRefresh \in RefreshTokenGiven(lknpd)
    /\ LET unlocked == [lknpd EXCEPT !.auth_lock = NoTask]
           token == FreshToken(lknpd)
       IN lknpd' =
            IF status = 200
            THEN SendFirst([unlocked EXCEPT
                               !.token_data = TokenData(token, hasRefresh),
                               !.api.valid = Sessions(unlocked, token),
                               !.task = [u \in Tasks |->
                                   IF unlocked.task[u].pc = "wait_auth_lock"
                                   THEN [unlocked.task[u] EXCEPT !.overtaken = TRUE]
                                   ELSE unlocked.task[u]]], t)
            ELSE [unlocked EXCEPT !.task[t].pc = "idle", !.task[t].result = "none",
                                  !.task[t].status = status]
    /\ UNCHANGED lknpdIdle

\* LknpdClient._request is called on a client that holds a token
RequestBegin(t, retry_on_401) ==
    /\ lknpd.task[t].pc = "idle"
    /\ lknpd.configured
    /\ is_authenticated(lknpd.token_data)
    /\ lknpd' = SendFirst([lknpd EXCEPT !.task[t] =
                    [IdleTask EXCEPT !.kind = "request",
                                     !.retry_on_401 = retry_on_401]], t)
    /\ UNCHANGED lknpdIdle

\* LknpdClient._refresh_token inside "async with self._refresh_lock", up to
\* its POST
RefreshLocked(l, t) ==
    IF ~l.token_data.set \/ ~l.token_data.hasRefresh
    THEN Returned(l, t, 401, FALSE, TRUE)
    ELSE [l EXCEPT !.refresh_lock = t, !.task[t].pc = "refreshing"]

\* the first request of _request gets its answer
RequestResponse(t, status, named) ==
    /\ lknpd.task[t].pc = "request"
    /\ lknpd.task[t].sent = 1
    /\ status \in RequestStatuses(lknpd, lknpd.task[t].headers)
    /\ named \in ReceiptNamed(lknpd)
    /\ LET l0 == [lknpd EXCEPT !.task[t].first = status]
       IN lknpd' =
            IF status = 401 /\ l0.task[t].retry_on_401
            THEN IF l0.refresh_lock # NoTask
                 THEN [l0 EXCEPT !.task[t].pc = "wait_refresh_lock"]
                 ELSE RefreshLocked(l0, t)
            ELSE Returned(l0, t, status, named, FALSE)
    /\ UNCHANGED lknpdIdle

\* the caller that waited for _refresh_lock gets it
RefreshLockAcquired(t) ==
    /\ lknpd.task[t].pc = "wait_refresh_lock"
    /\ lknpd.refresh_lock = NoTask
    /\ lknpd' = RefreshLocked(lknpd, t)
    /\ UNCHANGED lknpdIdle

\* _refresh_token gets its answer; on success _request sends once more
RefreshResponse(t, status, hasRefresh) ==
    /\ lknpd.task[t].pc = "refreshing"
    /\ status \in RefreshStatuses(lknpd)
    /\ hasRefresh \in RefreshTokenGiven(lknpd)
    /\ LET unlocked == [lknpd EXCEPT !.refresh_lock = NoTask]
           token == FreshToken(lknpd)
           stored == TokenData(token, hasRefresh)
       IN lknpd' =
            IF status = 200
            THEN [unlocked EXCEPT !.token_data = stored,
                                  !.api.valid = Sessions(unlocked, token),
                                  !.task[t].pc = "request",
                                  !.task[t].refreshed = token,
                                  !.task[t].headers = _get_auth_headers(stored),
                                  !.task[t].sent = @ + 1]
            ELSE Returned(unlocked, t, 401, FALSE, TRUE)
    /\ UNCHANGED lknpdIdle

\* the second request of _request gets its answer
RetryResponse(t, status, named) ==
    /\ lknpd.task[t].pc = "request"
    /\ lknpd.task[t].sent = 2
    /\ status \in RequestStatuses(lknpd, lknpd.task[t].headers)
    /\ named \in ReceiptNamed(lknpd)
    /\ lknpd' = Returned(lknpd, t, status, named, FALSE)
    /\ UNCHANGED lknpdIdle

\* the API ends the sessions it has given out
LoginExpires ==
    /\ ~lknpd.api.stable
    /\ lknpd.api.valid # {}
    /\ lknpd' = [lknpd EXCEPT !.api.valid = {}]
    /\ UNCHANGED lknpdIdle

\* from now on the API accepts the credentials, keeps the sessions it gives
\* out and answers every request according to its token
ApiAcceptsCredentials ==
    /\ ~lknpd.api.stable
    /\ lknpd' = [lknpd EXCEPT !.api.stable = TRUE]
    /\ UNCHANGED lknpdIdle

TaskStep(t) ==
    \/ CreateIncomeReceiptBegin(t)
    \/ AuthLockAcquired(t)
    \/ \E status \in {200, 401, 500, NetErr}, hasRefresh \in BOOLEAN :
          AuthenticateResponse(t, status, hasRefresh)
    \/ \E retry_on_401 \in BOOLEAN : RequestBegin(t, retry_on_401)
    \/ \E status \in {200, 400, 401, 500, NetErr}, named \in BOOLEAN :
          RequestResponse(t, status, named)
    \/ RefreshLockAcquired(t)
    \/ \E status \in {200, 401, 500, NetErr}, hasRefresh \in BOOLEAN :
          RefreshResponse(t, status, hasRefresh)
    \/ \E status \in {200, 400, 401, 500, NetErr}, named \in BOOLEAN :
          RetryResponse(t, status, named)

NextLknpd ==
    \/ \E t \in Tasks : TaskStep(t)
    \/ LoginExpires
    \/ ApiAcceptsCredentials

LknpdSpec == InitLknpd /\ [][NextLknpd]_vars

\* The event loop runs every coroutine that can go on, both locks hand over
\* in arrival order, every HTTP exchange ends (httpx timeout), and the bot
\* keeps asking for receipts.
LknpdFairSpec ==
    /\ LknpdSpec
    /\ \A t \in Tasks : SF_vars(TaskStep(t)) /\ SF_vars(CreateIncomeReceiptBegin(t))

\* C31: a call of LknpdClient._request sends at most two requests; the
\* second is sent only if the first was answered 401, retry_on_401 is true
\* and _refresh_token succeeded, and it carries the token that the refresh
\* stored; whatever answers the second request, 401 included, the call
\* returns it without touching the token or the refresh lock again.
C31_AtMostTwoRequests ==
    /\ [](\A t \in Tasks :
            /\ lknpd.task[t].sent <= 2
            /\ lknpd.task[t].sent = 2
               => /\ lknpd.task[t].first = 401
                  /\ lknpd.task[t].retry_on_401
                  /\ lknpd.task[t].refreshed # NoToken
                  /\ lknpd.task[t].headers = lknpd.task[t].refreshed)
    /\ [][\A t \in Tasks :
            (lknpd.task[t].pc = "request" /\ lknpd.task[t].sent = 2
             /\ lknpd'.task[t] # lknpd.task[t])
            => /\ lknpd'.task[t].pc = "idle"
               /\ lknpd'.task[t].sent = 2
               /\ lknpd'.token_data = lknpd.token_data
               /\ lknpd'.refresh_lock = lknpd.refresh_lock
               /\ lknpd'.task[t].status = 401
                  => lknpd'.task[t].result \in {"none", "response"}]_vars

\* A call whose first request was answered 401 has refreshed the token, sent
\* the second request with it, been answered 401 again and returned.
C31_Witness ==
    \E t \in Tasks :
        /\ lknpd.task[t].pc = "idle" /\ lknpd.task[t].sent = 2
        /\ lknpd.task[t].first = 401 /\ lknpd.task[t].status = 401
        /\ lknpd.task[t].refreshed # NoToken

C38_ExpiredLoginRecovers ==
    (lknpd.api.stable /\ lknpd.loginExpired) ~> ~lknpd.loginExpired

-----------------------------------------------------------------------------
(* Referral codes under concurrent sessions (db/dal/user_dal.py).          *)
(* Every session works for its own user, in its own transaction at READ    *)
(* COMMITTED: a statement sees the committed rows and the session's own    *)
(* writes.  The User model (db/models.py) is outside the modelled files;    *)
(* whether the users table has a unique index on referral_code is chosen   *)
(* when the database is set up.  The callers pass no referral_code.        *)

\* the users, one session each
RefUsers == {1, 2}

\* what _generate_referral_code_candidate can return
Candidates == {"AAAAAAAAA", "BBBBBBBBB"}

\* no row in the users table
NoRow == "no row"

\* a row whose referral_code is NULL
NoCode == ""

IdleSession ==
    [pc |-> "idle", op |-> "", attempts |-> 0, candidate |-> NoCode,
     write |-> NoCode, outcome |-> ""]

InitRefDb ==
    /\ \E unique \in BOOLEAN, existing \in SUBSET RefUsers :
          refdb = [unique_index |-> unique,
                   users |-> [u \in RefUsers |-> IF u \in existing THEN NoCode ELSE NoRow],
                   session |-> [u \in RefUsers |-> IdleSession]]
    /\ InitPaymentsIdle
    /\ autorenew = NULL /\ gate = NULL /\ userdb = NULL /\ refcode = NULL
    /\ relations = NULL /\ clients = NULL /\ sig = NULL /\ lknpd = NULL

refDbIdle == <<paymentVars, autorenew, gate, userdb, refcode, relations, clients, sig, lknpd>>

\* the referral codes that a statement of session u sees
VisibleCodes(db, u) ==
    ({db.users[v] : v \in RefUsers} \cup {db.session[u].write}) \ {NoRow, NoCode}

\* the referral codes written by other sessions and not committed yet
PendingCodes(db, u) ==
    {db.session[v].write : v \in RefUsers \ {u}} \ {NoCode}

\* the referral codes of the committed rows of other users
CommittedCodes(db, u) ==
    {db.users[v] : v \in RefUsers \ {u}} \ {NoRow, NoCode}

\* create_user is called for a user that has no row
CreateUserCalled(u) ==
    /\ refdb.session[u].pc = "idle"
    /\ refdb.users[u] = NoRow
    /\ refdb' = [refdb EXCEPT !.session[u] =
                    [IdleSession EXCEPT !.pc = "generating", !.op = "create_user"]]
    /\ UNCHANGED refDbIdle

\* ensure_referral_code is called for a user whose row is loaded
EnsureReferralCodeCalled(u) ==
    /\ refdb.session[u].pc = "idle"
    /\ refdb.users[u] # NoRow
    /\ refdb' = [refdb EXCEPT !.session[u] =
                    IF refdb.users[u] # NoCode
                    THEN [IdleSession EXCEPT !.op = "ensure_referral_code",
                                             !.outcome = "returned"]
                    ELSE [IdleSession EXCEPT !.pc = "generating",
                                             !.op = "ensure_referral_code"]]
    /\ UNCHANGED refDbIdle

\* one round of the loop of generate_unique_referral_code
CheckCandidate(u, candidate) ==
    /\ refdb.session[u].pc = "generating"
    /\ LET s == refdb.session[u]
       IN refdb' = [refdb EXCEPT !.session[u] =
            IF ~_referral_code_exists(VisibleCodes(refdb, u), candidate)
            THEN [s EXCEPT !.pc = "write", !.candidate = candidate,
                           !.attempts = @ + 1]
            ELSE IF s.attempts + 1 >= MAX_REFERRAL_CODE_ATTEMPTS
            THEN [s EXCEPT !.pc = "failed", !.attempts = @ + 1,
                           !.outcome = "RuntimeError"]
            ELSE [s EXCEPT !.attempts = @ + 1]]
    /\ UNCHANGED refDbIdle

\* the INSERT of create_user, or the flush of ensure_referral_code, with
\* the generated code; a unique index makes the statement wait for a
\* session that has written the same code and fail once it is committed
WriteReferralCode(u) ==
    /\ refdb.session[u].pc = "write"
    /\ LET s == refdb.session[u]
       IN /\ refdb.unique_index => s.candidate \notin PendingCodes(refdb, u)
          /\ refdb' = [refdb EXCEPT !.session[u] =
               IF refdb.unique_index /\ s.candidate \in CommittedCodes(refdb, u)
               THEN [s EXCEPT !.pc = "failed", !.outcome = "IntegrityError"]
               ELSE [s EXCEPT !.pc = "written", !.write = s.candidate,
                              !.outcome = "returned"]]
    /\ UNCHANGED refDbIdle

\* the caller commits the session
SessionCommits(u) ==
    /\ refdb.session[u].pc = "written"
    /\ refdb' = [refdb EXCEPT !.users[u] = refdb.session[u].write,
                              !.session[u].pc = "idle",
                              !.session[u].write = NoCode]
    /\ UNCHANGED refDbIdle

\* the caller rolls the session back
SessionRollsBack(u) ==
    /\ refdb.session[u].pc \in {"written", "failed"}
    /\ refdb' = [refdb EXCEPT !.session[u].pc = "idle",
                              !.session[u].write = NoCode]
    /\ UNCHANGED refDbIdle

NextRefDb ==
    \E u \in RefUsers :
        \/ CreateUserCalled(u)
        \/ EnsureReferralCodeCalled(u)
        \/ \E candidate \in Candidates : CheckCandidate(u, candidate)
        \/ WriteReferralCode(u)
        \/ SessionCommits(u)
        \/ SessionRollsBack(u)

RefDbSpec == InitRefDb /\ [][NextRefDb]_vars

====
